---- MODULE Spec2Model ----
(***************************************************************************)
(* Offline-create synchronisation of memos in kamiteku557/mylife:          *)
(*   offlineSync/createQueue.ts  generic queue (load/save/append/consume)  *)
(*   memoOfflineSync.ts          memo orchestrator (enqueue/sync/merge)    *)
(*   App.tsx                     the caller: display list, single-flight   *)
(*                               flag, boot / refresh / create / delete    *)
(*                                                                         *)
(* JavaScript runs one task at a time: a handler runs without interruption *)
(* up to its next `await`.  Every action below is one such uninterrupted   *)
(* stretch.  A continuation that follows an `await` on an already settled  *)
(* promise is a microtask: it runs before any further task (user event,    *)
(* network response), which MicrotaskPending expresses.                    *)
(***************************************************************************)
EXTENDS Integers, Sequences, FiniteSets, TLC

\* ------------------------------------------------------------------ bounds
MaxLen == 3        \* longest queue handed to consumeCreateQueue on its own
MaxEnqueues == 2   \* memos the user creates
MaxReloads == 1    \* page reloads
MaxFailures == 1   \* failures of the environment: createRemote calls that
                   \* reject plus localStorage writes that throw
MaxChains == 1     \* runInitialSync chains alive at the same time
MaxStored == 2     \* entries the previous session left in the stored queue
MaxEdits == 1      \* handleSaveEdit calls
MaxMemos == 2      \* longest memo list handed to a function called on its own
MaxRaw == 3        \* longest stored array handed to loadPendingMemoQueue on its own
MaxTabRuns == 2    \* sync runs started by the tabs sharing one store, together
MaxTabCreates == 1 \* handleCreate calls made in those tabs, together
MaxEpoch == 3      \* largest epoch reading and interval handed to shouldRunResumeSync

\* ------------------------------------------------------------ value sets
Bodies == {"a", "b"}

\* what the user types into the composer of the App
ComposerBodies == {"a"}

MkPayload(body) ==
  [title |-> body, body_md |-> body, log_date |-> "today",
   related_session_id |-> "null", tags |-> <<>>]

Payloads == {MkPayload(b) : b \in Bodies}

\* values a createRemote promise can reject with: an Error, or anything else
Rejections == {[isError |-> TRUE, message |-> "boom"],
               [isError |-> FALSE, message |-> "not an Error"]}

NoError == [isError |-> FALSE, message |-> "null"]

\* ---------------------------------------------------- small sequence tools
Range(s) == {s[i] : i \in DOMAIN s}

\* Op applied to the value of v.  TLC passes operator arguments and LET
\* definitions unevaluated; a variable bound over a set holds a value.
With(v, Op(_)) == CHOOSE r \in {Op(x) : x \in {v}} : TRUE

SelectIdx(s, Keep(_)) ==
  LET Sel(v) ==
        LET F[i \in 0..Len(v)] ==
              IF i = 0 THEN <<>>
              ELSE IF Keep(v[i]) THEN Append(F[i - 1], v[i]) ELSE F[i - 1]
        IN F[Len(v)]
  IN With(s, Sel)

MapSeq(s, Op(_)) ==
  LET Map(v) == [i \in DOMAIN v |-> Op(v[i])]
  IN With(s, Map)

Slice(s, from) == SubSeq(s, from, Len(s))

\* ====================================================== createQueue.ts
\* A queue entry {client_id, payload, meta}.
Entry(cid, payload, queuedAt) ==
  [client_id |-> cid, payload |-> payload, meta |-> [queued_at |-> queuedAt]]

\* The stored string under a key: absent, unparsable, a JSON value that is
\* not an array, or a JSON array of items.
Absent == [kind |-> "absent"]
EmptyString == [kind |-> "empty"]
Unparsable == [kind |-> "unparsable"]
StoredValue(v) == [kind |-> "value", value |-> v]
StoredArray(items) == [kind |-> "array", items |-> items]

\* !raw: getItem returned null or the empty string.
IsFalsyString(raw) == raw.kind \in {"absent", "empty"}

\* JSON.parse: throws on a string that is not JSON, else the value.
JsonParse(raw) ==
  IF raw.kind = "unparsable" THEN [threw |-> TRUE] ELSE [threw |-> FALSE, value |-> raw]

\* Array.isArray.
IsArray(parsed) == parsed.kind = "array"

\* loadStoredList: [] for a missing key, a parse error or a non-array;
\* otherwise the items the guard accepts, in stored order.
LoadStoredList(raw, IsValid(_)) ==
  IF IsFalsyString(raw) THEN <<>>
  ELSE LET parsed == JsonParse(raw)
       IN IF parsed.threw THEN <<>>
          ELSE IF ~IsArray(parsed.value) THEN <<>>
          ELSE SelectIdx(parsed.value.items, IsValid)

\* saveStoredList: JSON.stringify of the array, overwriting the key.
SaveStoredList(values) == StoredArray(values)

\* generateClientId: `${now()}-${random suffix}`.
GenerateClientId(t, suffix) == <<t, suffix>>

\* appendCreateQueueEntry: the entry and a copy of the queue with it appended.
AppendCreateQueueEntryFront(queue, payload, clientId, meta) ==
  LET entry == [client_id |-> clientId, payload |-> payload, meta |-> meta]
  IN [entry |-> entry, queue |-> <<entry>> \o queue]

AppendCreateQueueEntry(queue, payload, clientId, meta) ==
  LET entry == [client_id |-> clientId, payload |-> payload, meta |-> meta]
  IN [entry |-> entry, queue |-> Append(queue, entry)]

\* ---- consumeCreateQueue as the steps between its awaits.
\* A consume record: the parameter `queue`, the loop variable `index`
\* (1-based here), `successes`, and once pc = "returned" the result fields
\* `remaining` and `error`.  `invoked` lists, in call order, the queue
\* positions createRemote was invoked for; `outstanding` the positions whose
\* promise has not settled; `rejectedAt` the positions whose promise rejected;
\* `returned` the values the resolved promises resolved with, in that order;
\* `thrown` the values the rejected promises rejected with.
CqInit(queue) ==
  [queue |-> queue, index |-> 1, successes |-> <<>>, pc |-> "entry",
   remaining |-> <<>>, error |-> NoError, hasError |-> FALSE,
   invoked |-> <<>>, outstanding |-> {}, rejectedAt |-> {}, returned |-> <<>>,
   thrown |-> <<>>]

\* The loop head: either createRemote(queue[index].payload) is invoked and
\* awaited, or the loop is over and the full-success result is returned.
CqLoopParallel(c) ==
  IF c.index <= Len(c.queue)
  THEN [c EXCEPT !.pc = "await",
                 !.invoked = c.invoked \o [i \in 1..(Len(c.queue) - c.index + 1) |-> c.index + i - 1],
                 !.outstanding = c.outstanding \cup (c.index..Len(c.queue))]
  ELSE [c EXCEPT !.pc = "returned", !.remaining = <<>>,
                 !.error = NoError, !.hasError = FALSE]

CqLoop(c) ==
  IF c.index <= Len(c.queue)
  THEN [c EXCEPT !.pc = "await",
                 !.invoked = Append(c.invoked, c.index),
                 !.outstanding = c.outstanding \cup {c.index}]
  ELSE [c EXCEPT !.pc = "returned", !.remaining = <<>>,
                 !.error = NoError, !.hasError = FALSE]

\* The awaited call resolved with `synced`: push the success, next index.
CqResolveSkipPush(c, synced) ==
  CqLoop([c EXCEPT !.outstanding = c.outstanding \ {c.index},
                   !.returned = Append(c.returned, synced),
                   !.index = c.index + 1])

CqResolve(c, synced) ==
  CqLoop([c EXCEPT !.successes = Append(c.successes,
                                        [entry |-> c.queue[c.index], synced |-> synced]),
                   !.outstanding = c.outstanding \ {c.index},
                   !.returned = Append(c.returned, synced),
                   !.index = c.index + 1])

\* The awaited call rejected with `thrown`: stop, keep queue.slice(index).
CqRejectDropFailed(c, thrown) ==
  [c EXCEPT !.pc = "returned",
            !.outstanding = c.outstanding \ {c.index},
            !.rejectedAt = c.rejectedAt \cup {c.index},
            !.thrown = Append(c.thrown, thrown),
            !.remaining = Slice(c.queue, c.index + 1),
            !.hasError = TRUE,
            !.error = IF thrown.isError THEN thrown
                      ELSE [isError |-> TRUE, message |-> "queue sync failed"]]

CqRejectContinue(c, thrown) ==
  CqLoop([c EXCEPT !.outstanding = c.outstanding \ {c.index},
                   !.rejectedAt = c.rejectedAt \cup {c.index},
                   !.thrown = Append(c.thrown, thrown),
                   !.index = c.index + 1])

CqRejectRaw(c, thrown) ==
  [c EXCEPT !.pc = "returned",
            !.outstanding = c.outstanding \ {c.index},
            !.rejectedAt = c.rejectedAt \cup {c.index},
            !.thrown = Append(c.thrown, thrown),
            !.remaining = Slice(c.queue, c.index),
            !.hasError = TRUE,
            !.error = thrown]

CqReject(c, thrown) ==
  [c EXCEPT !.pc = "returned",
            !.outstanding = c.outstanding \ {c.index},
            !.rejectedAt = c.rejectedAt \cup {c.index},
            !.thrown = Append(c.thrown, thrown),
            !.remaining = Slice(c.queue, c.index),
            !.hasError = TRUE,
            !.error = IF thrown.isError THEN thrown
                      ELSE [isError |-> TRUE, message |-> "queue sync failed"]]

\* ====================================================== memoOfflineSync.ts
Has(v, field) == field \in DOMAIN v

\* buildPendingPreviewId: `local:${clientId}`.
BuildPendingPreviewId(clientId) == <<"local", clientId>>

IsLocalId(id) == id[1] = "local"

\* sortMemosByCreatedAtDesc: Array.prototype.sort (stable) on a copy, later
\* created_at first.
SortMemosByCreatedAtDesc(memos) ==
  LET Insert(sorted, m) ==
        LET k == Cardinality({i \in DOMAIN sorted : sorted[i].created_at >= m.created_at})
        IN SubSeq(sorted, 1, k) \o <<m>> \o SubSeq(sorted, k + 1, Len(sorted))
      Sort(v) ==
        LET F[i \in 0..Len(v)] ==
              IF i = 0 THEN <<>>
              ELSE LET InsertInto(sorted) == Insert(sorted, v[i]) IN With(F[i - 1], InsertInto)
        IN F[Len(v)]
  IN With(memos, Sort)

\* markSyncedMemo: {...memo, sync_status: "synced"}.
MarkSyncedMemoKeep(memo) == memo

MarkSyncedMemo(memo) ==
  [f \in DOMAIN memo \cup {"sync_status"} |->
     IF f = "sync_status" THEN "synced" ELSE memo[f]]

MarkPendingMemo(memo) ==
  [f \in DOMAIN memo \cup {"sync_status"} |->
     IF f = "sync_status" THEN "pending" ELSE memo[f]]

\* buildPendingPreviewFromQueue.
BuildPendingPreviewFromQueue(item) ==
  [id |-> BuildPendingPreviewId(item.client_id),
   user_id |-> "local-pending",
   title |-> item.payload.title,
   body_md |-> item.payload.body_md,
   log_date |-> item.payload.log_date,
   related_session_id |-> item.payload.related_session_id,
   tags |-> item.payload.tags,
   created_at |-> item.meta.queued_at,
   updated_at |-> item.meta.queued_at,
   sync_status |-> "pending"]

\* isMemoLog: an object with id, body_md, created_at and tags.
IsMemoLogAny(value) == TRUE

IsMemoLog(value) ==
  Has(value, "id") /\ Has(value, "body_md") /\ Has(value, "created_at") /\ Has(value, "tags")

\* isPendingMemoQueueItem: the current entry shape.
IsPendingMemoQueueItem(value) ==
  /\ Has(value, "client_id")
  /\ Has(value, "payload") /\ Has(value.payload, "body_md")
  /\ Has(value, "meta") /\ Has(value.meta, "queued_at")

\* ensurePendingMeta: meta ?? {queued_at: now}.
EnsurePendingMeta(item, t) ==
  IF Has(item, "meta") THEN item
  ELSE [f \in DOMAIN item \cup {"meta"} |->
          IF f = "meta" THEN [queued_at |-> t] ELSE item[f]]

Null == [kind |-> "null"]

\* normalizePendingMemoQueueItem: current shape as is, the legacy shape (with
\* a preview) upgraded, anything else null.
NormalizePendingMemoQueueItemNoUpgrade(value, t) ==
  IF IsPendingMemoQueueItem(value) THEN value ELSE Null

NormalizePendingMemoQueueItemRestamp(value, t) ==
  IF ~(Has(value, "client_id") /\ Has(value, "payload") /\ Has(value.payload, "body_md"))
  THEN Null
  ELSE [client_id |-> value.client_id,
        payload |-> value.payload,
        meta |-> [queued_at |-> t]]

NormalizePendingMemoQueueItem(value, t) ==
  IF IsPendingMemoQueueItem(value) THEN value
  ELSE IF ~(Has(value, "client_id") /\ Has(value, "payload") /\ Has(value.payload, "body_md"))
  THEN Null
  ELSE [client_id |-> value.client_id,
        payload |-> value.payload,
        meta |-> [queued_at |->
                    IF Has(value, "preview") /\ Has(value.preview, "created_at")
                    THEN value.preview.created_at ELSE t]]

\* loadMemoCache.
LoadMemoCache(raw) ==
  SortMemosByCreatedAtDesc(MapSeq(LoadStoredList(raw, IsMemoLog), MarkSyncedMemo))

\* loadPendingMemoQueue.
LoadPendingMemoQueue(raw, t) ==
  LET Accept(v) == TRUE
      Norm(v) == NormalizePendingMemoQueueItem(v, t)
      NotNull(v) == v # Null
  IN SelectIdx(MapSeq(LoadStoredList(raw, Accept), Norm), NotNull)

\* savePendingMemoQueue.
SavePendingMemoQueueUnique(queue) ==
  LET First(i) == \A h \in 1..(i - 1) : queue[h].client_id # queue[i].client_id
      F[i \in 0..Len(queue)] ==
        IF i = 0 THEN <<>> ELSE IF First(i) THEN Append(F[i - 1], queue[i]) ELSE F[i - 1]
  IN SaveStoredList(F[Len(queue)])

SavePendingMemoQueue(queue) == SaveStoredList(queue)

\* saveMemoCache: pending records are left out; sync_status is set to
\* undefined, which JSON.stringify omits.
SaveMemoCacheKeepPending(memos) ==
  LET Strip(m) == [f \in DOMAIN m \ {"sync_status"} |-> m[f]]
  IN SaveStoredList(MapSeq(memos, Strip))

SaveMemoCache(memos) ==
  LET NotPending(m) == ~(Has(m, "sync_status") /\ m.sync_status = "pending")
      Strip(m) == [f \in DOMAIN m \ {"sync_status"} |-> m[f]]
  IN SaveStoredList(MapSeq(SelectIdx(memos, NotPending), Strip))

\* Map.set on an insertion-ordered map kept as a sequence with unique ids.
MapSetAlwaysAppend(merged, memo) == Append(merged, memo)

MapSet(merged, memo) ==
  IF \E i \in DOMAIN merged : merged[i].id = memo.id
  THEN [i \in DOMAIN merged |-> IF merged[i].id = memo.id THEN memo ELSE merged[i]]
  ELSE Append(merged, memo)

\* mergeMemoList.
MergeMemoList(serverMemos, pendingPreviews) ==
  LET S[i \in 0..Len(serverMemos)] ==
        IF i = 0 THEN <<>> ELSE MapSet(S[i - 1], MarkSyncedMemo(serverMemos[i]))
      P[i \in 0..Len(pendingPreviews)] ==
        IF i = 0 THEN S[Len(serverMemos)]
        ELSE IF \E j \in DOMAIN P[i - 1] : P[i - 1][j].id = pendingPreviews[i].id
             THEN P[i - 1]
             ELSE Append(P[i - 1], MarkPendingMemo(pendingPreviews[i]))
  IN SortMemosByCreatedAtDesc(P[Len(pendingPreviews)])

\* enqueueMemoCreate: load, append, save, build the preview.  `stored` is the
\* value written under the queue key.
EnqueueMemoCreate(raw, payload, t, suffix) ==
  LET queue == LoadPendingMemoQueue(raw, t)
      appended == AppendCreateQueueEntry(queue, payload, GenerateClientId(t, suffix),
                                         [queued_at |-> t])
      nextQueue == [i \in DOMAIN appended.queue |-> EnsurePendingMeta(appended.queue[i], t)]
      queuedEntry == EnsurePendingMeta(appended.entry, t)
  IN [preview |-> BuildPendingPreviewFromQueue(queuedEntry),
      queue |-> nextQueue,
      stored |-> SavePendingMemoQueue(nextQueue)]

\* applyMemoSyncSuccesses.
ApplyMemoSyncSuccesses(current, successes) ==
  IF Len(successes) = 0 THEN current
  ELSE LET previewIds == {successes[i].previewId : i \in DOMAIN successes}
           syncedAdds == [i \in DOMAIN successes |-> successes[i].syncedMemo]
           Kept(m) == m.id \notin previewIds
       IN SortMemosByCreatedAtDesc(syncedAdds \o SelectIdx(current, Kept))

\* ---- syncPendingMemoCreates as the steps between its awaits.
EmptyResult ==
  [successes |-> <<>>, pendingQueue |-> <<>>, hasError |-> FALSE, error |-> NoError]

NoRecord == [id |-> <<"none", 0>>]

\* Up to the first await: the queue is loaded; an empty queue returns at
\* once, otherwise consumeCreateQueue is entered and runs to its first await.
SyncPendingMemoCreatesBeginNoEarlyReturn(raw, t) ==
  LET queue == LoadPendingMemoQueue(raw, t)
  IN [pc |-> "consuming", c |-> CqLoop(CqInit(queue)), postState |-> "sent",
      postRec |-> NoRecord, callAt |-> 0, result |-> EmptyResult]

SyncPendingMemoCreatesBegin(raw, t) ==
  LET queue == LoadPendingMemoQueue(raw, t)
  IN IF Len(queue) = 0
     THEN [pc |-> "resolved", c |-> CqInit(queue), postState |-> "none",
           postRec |-> NoRecord, callAt |-> 0, result |-> EmptyResult]
     ELSE [pc |-> "consuming", c |-> CqLoop(CqInit(queue)), postState |-> "sent",
           postRec |-> NoRecord, callAt |-> 0, result |-> EmptyResult]

\* After consumeCreateQueue returned: the queue that is written back, and the
\* result handed to the caller.
SyncRemainingQueueWhole(c, t) == [i \in DOMAIN c.queue |-> EnsurePendingMeta(c.queue[i], t)]

SyncRemainingQueue(c, t) == [i \in DOMAIN c.remaining |-> EnsurePendingMeta(c.remaining[i], t)]

SyncResultAllSent(c, t) ==
  [successes |-> [i \in DOMAIN c.successes |->
                    [previewId |-> BuildPendingPreviewId(c.successes[i].entry.client_id),
                     syncedMemo |-> MarkSyncedMemo(c.successes[i].synced)]],
   pendingQueue |-> <<>>,
   hasError |-> c.hasError,
   error |-> c.error]

SyncResult(c, t) ==
  [successes |-> [i \in DOMAIN c.successes |->
                    [previewId |-> BuildPendingPreviewId(c.successes[i].entry.client_id),
                     syncedMemo |-> MarkSyncedMemo(c.successes[i].synced)]],
   pendingQueue |-> SyncRemainingQueue(c, t),
   hasError |-> c.hasError,
   error |-> c.error]

\* ====================================================== backend (POST /memo-logs)
\* The record the server creates for a payload: a server id, the submitted
\* fields, the server's timestamps.
ServerCreate(n, payload, t) ==
  [id |-> <<"srv", n>>, user_id |-> "user",
   title |-> payload.title, body_md |-> payload.body_md, log_date |-> payload.log_date,
   related_session_id |-> payload.related_session_id, tags |-> payload.tags,
   created_at |-> t, updated_at |-> t]

\* ====================================================== App.tsx
VARIABLES
  storedQueue,            \* localStorage["mylife.memo-pending-create.v1"]
  storedCache,            \* localStorage["mylife.memo-cache.v1"]
  server,                 \* the memo logs the backend holds, in creation order
  now,                    \* the clock (Date.now / the server's clock)
  memoLogs,               \* useState: the display list
  pendingSyncCount,       \* useState
  pendingSyncInFlightRef, \* useRef: the single-flight flag
  syncRuns,               \* executions of syncPendingMemos past the guard
  chains,                 \* executions of runInitialSync
  inst,                   \* number of page loads so far, minus one
  calls,                  \* history: every createRemote call, in call order
  serverOrigin,           \* history: client_id of the entry behind server[n]
  enqueued,               \* history: the entries enqueued, in order
  deleted,                \* history: client_ids the user removed while pending
  faults,                 \* history: number of storage writes that threw
  editingId,              \* useState: id of the memo being edited, or NotEditing
  saveEdits,              \* history: the handleSaveEdit calls and the PUT each sent
  cq,                     \* consumeCreateQueue run on its own (SpecConsume)
  pure                    \* a function of memoOfflineSync.ts called on its own

appVars == <<storedQueue, storedCache, server, now, memoLogs, pendingSyncCount,
             pendingSyncInFlightRef, syncRuns, chains, inst, calls, serverOrigin,
             enqueued, deleted, faults, editingId, saveEdits>>

vars == <<appVars, cq, pure>>

\* editingId when it is null.
NotEditing == <<"null">>

\* No function is being called on its own.
PureIdle == [stage |-> "idle"]

\* createRemote calls made for the positions of c.invoked after the first `from`.
CallsFor(c, from, instance) ==
  [i \in 1..(Len(c.invoked) - from) |->
     [cid |-> c.queue[c.invoked[from + i]].client_id, inst |-> instance,
      outcome |-> "pending"]]

\* syncPendingMemos up to its first await.  st holds what it reads: the flag,
\* the runs in flight, the call history, the stored queue, the page, the time.
SyncPendingMemosNoGuard(st) ==
  LET run == SyncPendingMemoCreatesBegin(st.raw, st.now)
      made == CallsFor(run.c, 0, st.inst)
  IN [flag |-> TRUE,
      runs |-> Append(st.runs, [run EXCEPT !.callAt = Len(st.calls) + Len(made)]),
      calls |-> st.calls \o made]

SyncPendingMemos(st) ==
  IF st.flag
  THEN [flag |-> st.flag, runs |-> st.runs, calls |-> st.calls]
  ELSE LET run == SyncPendingMemoCreatesBegin(st.raw, st.now)
           made == CallsFor(run.c, 0, st.inst)
       IN [flag |-> TRUE,
           runs |-> Append(st.runs, [run EXCEPT !.callAt = Len(st.calls) + Len(made)]),
           calls |-> st.calls \o made]

\* The `finally` of syncPendingMemos: the value the flag is left with.
SyncPendingMemosFinallySkippedOnThrow(run) == run.pc = "threw"

SyncPendingMemosFinally(run) == FALSE

\* refreshMemos up to its first await: the GET is sent.
NewChain == [pc |-> "getSent", list |-> <<>>]

\* The mount effects, in declaration order: the cache-save effect (with the
\* initial, empty display list), the boot effect, runInitialSync.  A display
\* list set by the boot effect is saved to the cache by the cache-save effect
\* after the next render.
Mount(rawQueue, t) ==
  LET cacheAtBoot == SaveMemoCache(<<>>)
      cached == LoadMemoCache(cacheAtBoot)
      pendingQueue == LoadPendingMemoQueue(rawQueue, t)
      merged == MergeMemoList(cached, MapSeq(pendingQueue, BuildPendingPreviewFromQueue))
  IN [memoLogs |-> merged,
      storedCache |-> IF Len(merged) > 0 THEN SaveMemoCache(merged) ELSE cacheAtBoot,
      pendingSyncCount |-> Len(pendingQueue),
      chains |-> <<NewChain>>]

RemoveAt(s, i) == SubSeq(s, 1, i - 1) \o SubSeq(s, i + 1, Len(s))

\* A continuation is queued as a microtask: no task runs before it.
MicrotaskPending ==
  \/ \E i \in DOMAIN syncRuns : syncRuns[i].pc \in {"consumed", "resolved", "threw"}
  \/ \E j \in DOMAIN chains : chains[j].pc = "refreshed"

Rejected == {k \in DOMAIN calls : calls[k].outcome = "rejected"}

Init ==
  /\ storedQueue = Absent
  /\ LET m == Mount(Absent, 0)
     IN /\ memoLogs = m.memoLogs
        /\ storedCache = m.storedCache
        /\ pendingSyncCount = m.pendingSyncCount
        /\ chains = m.chains
  /\ server = <<>>
  /\ now = 1
  /\ pendingSyncInFlightRef = FALSE
  /\ syncRuns = <<>>
  /\ inst = 0
  /\ calls = <<>>
  /\ serverOrigin = <<>>
  /\ enqueued = <<>>
  /\ deleted = {}
  /\ faults = 0
  /\ editingId = NotEditing
  /\ saveEdits = <<>>
  /\ cq = CqInit(<<>>)
  /\ pure = PureIdle

\* handleCreate: enqueue, show the preview, start a sync.
HandleCreate(body, suffix) ==
  /\ ~MicrotaskPending
  /\ Len(enqueued) < MaxEnqueues
  /\ LET queued == EnqueueMemoCreate(storedQueue, MkPayload(body), now, suffix)
         shown == MergeMemoList(memoLogs, <<queued.preview>>)
         sync == SyncPendingMemos([flag |-> pendingSyncInFlightRef, runs |-> syncRuns,
                                   calls |-> calls, raw |-> queued.stored,
                                   inst |-> inst, now |-> now + 1])
     IN /\ storedQueue' = queued.stored
        /\ pendingSyncCount' = Len(queued.queue)
        /\ memoLogs' = shown
        /\ storedCache' = SaveMemoCache(shown)
        /\ enqueued' = Append(enqueued,
                               CHOOSE e \in Range(queued.queue) :
                                 BuildPendingPreviewId(e.client_id) = queued.preview.id)
        /\ pendingSyncInFlightRef' = sync.flag
        /\ syncRuns' = sync.runs
        /\ calls' = sync.calls
  /\ now' = now + 1
  /\ UNCHANGED <<server, chains, inst, serverOrigin, deleted, faults, editingId,
                 saveEdits, cq, pure>>

\* The backend handles the POST of the call run i awaits.
CreateRemoteCommits(i) ==
  LET run == syncRuns[i]
      entry == run.c.queue[run.c.index]
      rec == ServerCreate(Len(server) + 1, entry.payload, now)
  IN /\ run.pc = "consuming" /\ run.postState = "sent"
     /\ server' = Append(server, rec)
     /\ serverOrigin' = Append(serverOrigin, entry.client_id)
     /\ now' = now + 1
     /\ syncRuns' = [syncRuns EXCEPT ![i].postState = "committed", ![i].postRec = rec]
     /\ UNCHANGED <<storedQueue, storedCache, memoLogs, pendingSyncCount,
                    pendingSyncInFlightRef, chains, inst, calls, enqueued, deleted,
                    faults, editingId,
                 saveEdits, cq, pure>>

\* Run i after consumeCreateQueue's step took its record from c to d.
RunAfter(run, d, settled) ==
  LET made == CallsFor(d, Len(run.c.invoked), inst)
      marked == [calls EXCEPT ![run.callAt].outcome = settled]
  IN [run |-> [run EXCEPT !.c = d,
                          !.pc = IF d.pc = "returned" THEN "consumed" ELSE "consuming",
                          !.postState = IF d.pc = "await" THEN "sent" ELSE "none",
                          !.postRec = NoRecord,
                          !.callAt = Len(calls) + Len(made)],
      calls |-> marked \o made]

\* The response of the awaited POST arrives: 2xx with the created record.
CreateRemoteResolves(i) ==
  LET run == syncRuns[i]
      after == RunAfter(run, CqResolve(run.c, run.postRec), "ok")
  IN /\ ~MicrotaskPending
     /\ run.pc = "consuming" /\ run.postState = "committed"
     /\ syncRuns' = [syncRuns EXCEPT ![i] = after.run]
     /\ calls' = after.calls
     /\ UNCHANGED <<storedQueue, storedCache, server, now, memoLogs, pendingSyncCount,
                    pendingSyncInFlightRef, chains, inst, serverOrigin, enqueued,
                    deleted, faults, editingId,
                 saveEdits, cq, pure>>

\* The awaited POST fails before the backend has created anything: fetchJson
\* throws an Error.
CreateRemoteFails(i) ==
  LET run == syncRuns[i]
      after == RunAfter(run, CqReject(run.c, [isError |-> TRUE, message |-> "boom"]),
                        "rejected")
  IN /\ ~MicrotaskPending
     /\ run.pc = "consuming" /\ run.postState = "sent"
     /\ syncRuns' = [syncRuns EXCEPT ![i] = after.run]
     /\ calls' = after.calls
     /\ UNCHANGED <<storedQueue, storedCache, server, now, memoLogs, pendingSyncCount,
                    pendingSyncInFlightRef, chains, inst, serverOrigin, enqueued,
                    deleted, faults, editingId,
                 saveEdits, cq, pure>>

\* A failure of the environment (offline, timeout): there are at most
\* MaxFailures of them.
CreateRemoteRejects(i) ==
  /\ Cardinality(Rejected) + faults < MaxFailures
  /\ CreateRemoteFails(i)

\* syncPendingMemoCreates after `await consumeCreateQueue`: write the remaining
\* queue back and return the result.
SyncPersistRemaining(i) ==
  LET run == syncRuns[i]
  IN /\ run.pc = "consumed"
     /\ storedQueue' = SavePendingMemoQueue(SyncRemainingQueue(run.c, now))
     /\ syncRuns' = [syncRuns EXCEPT ![i].pc = "resolved",
                                     ![i].result = SyncResult(run.c, now)]
     /\ UNCHANGED <<storedCache, server, now, memoLogs, pendingSyncCount,
                    pendingSyncInFlightRef, chains, inst, calls, serverOrigin, enqueued,
                    deleted, faults, editingId,
                 saveEdits, cq, pure>>

\* The same step when localStorage.setItem throws (quota): nothing is written
\* and syncPendingMemoCreates rejects.
SyncPersistThrows(i) ==
  LET run == syncRuns[i]
  IN /\ run.pc = "consumed"
     /\ Cardinality(Rejected) + faults < MaxFailures
     /\ faults' = faults + 1
     /\ syncRuns' = [syncRuns EXCEPT ![i].pc = "threw"]
     /\ UNCHANGED <<storedQueue, storedCache, server, now, memoLogs, pendingSyncCount,
                    pendingSyncInFlightRef, chains, inst, calls, serverOrigin, enqueued,
                    deleted, editingId,
                 saveEdits, cq, pure>>

\* syncPendingMemos after `await syncPendingMemoCreates`: the rest of the try
\* block when it resolved, and the finally block.
SyncPendingMemosSettles(i) ==
  LET run == syncRuns[i]
      shown == IF run.pc = "resolved" /\ Len(run.result.successes) > 0
               THEN ApplyMemoSyncSuccesses(memoLogs, run.result.successes)
               ELSE memoLogs
  IN /\ run.pc \in {"resolved", "threw"}
     /\ pendingSyncCount' = IF run.pc = "resolved" THEN Len(run.result.pendingQueue)
                            ELSE pendingSyncCount
     /\ memoLogs' = shown
     /\ storedCache' = IF shown = memoLogs THEN storedCache ELSE SaveMemoCache(shown)
     /\ pendingSyncInFlightRef' = SyncPendingMemosFinally(run)
     /\ syncRuns' = RemoveAt(syncRuns, i)
     /\ UNCHANGED <<storedQueue, server, now, chains, inst, calls, serverOrigin,
                    enqueued, deleted, faults, editingId,
                 saveEdits, cq, pure>>

\* The backend answers the GET of chain j with the memo logs it holds.
RefreshGetAnswered(j) ==
  /\ chains[j].pc = "getSent"
  /\ chains' = [chains EXCEPT ![j].pc = "getAnswered", ![j].list = server]
  /\ UNCHANGED <<storedQueue, storedCache, server, now, memoLogs, pendingSyncCount,
                 pendingSyncInFlightRef, syncRuns, inst, calls, serverOrigin, enqueued,
                 deleted, faults, editingId,
                 saveEdits, cq, pure>>

\* refreshMemos after `await fetchJson`: merge the list with the previews of
\* the stored queue, show it, cache it.
RefreshResolves(j) ==
  LET synced == MapSeq(chains[j].list, MarkSyncedMemo)
      pendingQueue == LoadPendingMemoQueue(storedQueue, now)
      shown == MergeMemoList(synced, MapSeq(pendingQueue, BuildPendingPreviewFromQueue))
  IN /\ ~MicrotaskPending
     /\ chains[j].pc = "getAnswered"
     /\ pendingSyncCount' = Len(pendingQueue)
     /\ memoLogs' = shown
     /\ storedCache' = SaveMemoCache(shown)
     /\ chains' = [chains EXCEPT ![j].pc = "refreshed", ![j].list = <<>>]
     /\ UNCHANGED <<storedQueue, server, now, pendingSyncInFlightRef, syncRuns, inst,
                    calls, serverOrigin, enqueued, deleted, faults, editingId,
                 saveEdits, cq, pure>>

\* The GET fails: refreshMemos only reports the error.
RefreshRejects(j) ==
  /\ ~MicrotaskPending
  /\ chains[j].pc = "getSent"
  /\ chains' = [chains EXCEPT ![j].pc = "refreshed"]
  /\ UNCHANGED <<storedQueue, storedCache, server, now, memoLogs, pendingSyncCount,
                 pendingSyncInFlightRef, syncRuns, inst, calls, serverOrigin, enqueued,
                 deleted, faults, editingId,
                 saveEdits, cq, pure>>

\* runInitialSync after `await refreshMemos()`: syncPendingMemos is called.
InitialSyncCallsSync(j) ==
  LET sync == SyncPendingMemos([flag |-> pendingSyncInFlightRef, runs |-> syncRuns,
                                calls |-> calls, raw |-> storedQueue,
                                inst |-> inst, now |-> now])
  IN /\ chains[j].pc = "refreshed"
     /\ chains' = RemoveAt(chains, j)
     /\ pendingSyncInFlightRef' = sync.flag
     /\ syncRuns' = sync.runs
     /\ calls' = sync.calls
     /\ UNCHANGED <<storedQueue, storedCache, server, now, memoLogs, pendingSyncCount,
                    inst, serverOrigin, enqueued, deleted, faults, editingId,
                 saveEdits, cq, pure>>

\* settings.memoDisplayCount changes: refreshMemos is a new callback and the
\* runInitialSync effect runs again.
RestartInitialSync ==
  /\ ~MicrotaskPending
  /\ Len(chains) < MaxChains
  /\ chains' = Append(chains, NewChain)
  /\ UNCHANGED <<storedQueue, storedCache, server, now, memoLogs, pendingSyncCount,
                 pendingSyncInFlightRef, syncRuns, inst, calls, serverOrigin, enqueued,
                 deleted, faults, editingId,
                 saveEdits, cq, pure>>

\* handleDelete on a pending memo: its entry is filtered out of the stored
\* queue and its preview out of the display list.
HandleDeletePending(k) ==
  LET target == memoLogs[k]
      Others(item) == BuildPendingPreviewId(item.client_id) # target.id
      filteredQueue == SelectIdx(LoadPendingMemoQueue(storedQueue, now), Others)
      Shown(m) == m.id # target.id
      shown == SelectIdx(memoLogs, Shown)
  IN /\ ~MicrotaskPending
     /\ target.sync_status = "pending"
     /\ storedQueue' = SavePendingMemoQueue(filteredQueue)
     /\ pendingSyncCount' = Len(filteredQueue)
     /\ memoLogs' = shown
     /\ storedCache' = SaveMemoCache(shown)
     /\ deleted' = deleted \cup {target.id[2]}
     /\ UNCHANGED <<server, now, pendingSyncInFlightRef, syncRuns, chains, inst, calls,
                    serverOrigin, enqueued, faults, editingId,
                 saveEdits, cq, pure>>

\* startEditing, from the edit button of row k, which is disabled while the
\* memo is pending.
StartEditing(k) ==
  /\ ~MicrotaskPending
  /\ memoLogs[k].sync_status # "pending"
  /\ editingId # memoLogs[k].id
  /\ editingId' = memoLogs[k].id
  /\ UNCHANGED <<storedQueue, storedCache, server, now, memoLogs, pendingSyncCount,
                 pendingSyncInFlightRef, syncRuns, chains, inst, calls, serverOrigin,
                 enqueued, deleted, faults, saveEdits, cq, pure>>

\* handleSaveEdit up to its first await, for the memo `source` found under
\* editingId: whether it stopped at the pending guard, and the PUT it sent.
HandleSaveEditUnguarded(source) == [blocked |-> FALSE, put |-> <<source.id>>]

HandleSaveEdit(source) ==
  IF source.sync_status = "pending"
  THEN [blocked |-> TRUE, put |-> <<>>]
  ELSE [blocked |-> FALSE, put |-> <<source.id>>]

\* handleSaveEdit while the memo under editingId is pending in the display
\* list (the edit body is the memo's own, so it is not empty).
HandleSaveEditPending ==
  /\ ~MicrotaskPending
  /\ Len(saveEdits) < MaxEdits
  /\ \E k \in DOMAIN memoLogs :
       /\ memoLogs[k].id = editingId
       /\ \A h \in 1..(k - 1) : memoLogs[h].id # editingId
       /\ memoLogs[k].sync_status = "pending"
       /\ LET done == HandleSaveEdit(memoLogs[k])
          IN saveEdits' = Append(saveEdits, [id |-> editingId, put |-> done.put])
  /\ UNCHANGED <<storedQueue, storedCache, server, now, memoLogs, pendingSyncCount,
                 pendingSyncInFlightRef, syncRuns, chains, inst, calls, serverOrigin,
                 enqueued, deleted, faults, editingId, cq, pure>>

\* The page is reloaded (or closed and opened again): localStorage and the
\* backend keep their state, everything in memory is gone, requests in flight
\* are dropped, and the App mounts.
Reload ==
  /\ inst < MaxReloads
  /\ inst' = inst + 1
  /\ LET m == Mount(storedQueue, now)
     IN /\ memoLogs' = m.memoLogs
        /\ storedCache' = m.storedCache
        /\ pendingSyncCount' = m.pendingSyncCount
        /\ chains' = m.chains
  /\ pendingSyncInFlightRef' = FALSE
  /\ syncRuns' = <<>>
  /\ editingId' = NotEditing
  /\ UNCHANGED <<storedQueue, server, now, calls, serverOrigin, enqueued, deleted, faults,
                 saveEdits, cq, pure>>

\* Everything but a restart of runInitialSync.
NextSync ==
  \/ \E body \in ComposerBodies : HandleCreate(body, "r")
  \/ \E i \in DOMAIN syncRuns : CreateRemoteCommits(i)
  \/ \E i \in DOMAIN syncRuns : CreateRemoteResolves(i)
  \/ \E i \in DOMAIN syncRuns : CreateRemoteRejects(i)
  \/ \E i \in DOMAIN syncRuns : SyncPersistRemaining(i)
  \/ \E i \in DOMAIN syncRuns : SyncPendingMemosSettles(i)
  \/ \E j \in DOMAIN chains : RefreshGetAnswered(j)
  \/ \E j \in DOMAIN chains : RefreshResolves(j)
  \/ \E j \in DOMAIN chains : RefreshRejects(j)
  \/ \E j \in DOMAIN chains : InitialSyncCallsSync(j)
  \/ \E k \in DOMAIN memoLogs : HandleDeletePending(k)

Next == NextSync \/ RestartInitialSync

\* One page load of the App.
Spec == Init /\ [][Next]_vars

\* The App over several page loads.
NextReload == Next \/ Reload

SpecReload == Init /\ [][NextReload]_vars

\* One page load, without a change of the settings, in which the user also
\* opens memos for editing and saves.
NextEdit ==
  \/ NextSync
  \/ \E k \in DOMAIN memoLogs : StartEditing(k)
  \/ HandleSaveEditPending

SpecEdit == Init /\ [][NextEdit]_vars

\* One page load in which every continuation eventually runs, every request
\* is eventually answered (a POST succeeds once the failures are used up) and
\* runInitialSync keeps being run again.  A task of the event loop waits while
\* a microtask is queued and runs once the microtasks are drained, however
\* often others are queued in between: strong fairness for the tasks.
Fairness ==
  /\ WF_vars(\E i \in DOMAIN syncRuns : CreateRemoteCommits(i))
  /\ SF_vars(\E i \in DOMAIN syncRuns : CreateRemoteResolves(i))
  /\ WF_vars(\E i \in DOMAIN syncRuns : SyncPersistRemaining(i))
  /\ WF_vars(\E i \in DOMAIN syncRuns : SyncPendingMemosSettles(i))
  /\ WF_vars(\E j \in DOMAIN chains : RefreshGetAnswered(j))
  /\ SF_vars(\E j \in DOMAIN chains : RefreshResolves(j))
  /\ WF_vars(\E j \in DOMAIN chains : InitialSyncCallsSync(j))
  /\ SF_vars(RestartInitialSync)

SpecLive == Init /\ [][Next]_vars /\ Fairness

\* A page load on the store a previous session left behind: the memos it
\* enqueued (at times before this page's clock starts) and did not get sent.
\* They count as enqueued memos.  The settings do not change during this page
\* load.
BootEntry(k) ==
  Entry(GenerateClientId(k - MaxStored - 1, "r"), MkPayload("b"), k - MaxStored - 1)

BootQueues == {[k \in 1..n |-> BootEntry(k)] : n \in 0..MaxStored}

InitBoot ==
  /\ storedQueue \in {SavePendingMemoQueue(q) : q \in BootQueues}
  /\ LET m == Mount(storedQueue, 0)
     IN /\ memoLogs = m.memoLogs
        /\ storedCache = m.storedCache
        /\ pendingSyncCount = m.pendingSyncCount
        /\ chains = m.chains
  /\ server = <<>>
  /\ now = 1
  /\ pendingSyncInFlightRef = FALSE
  /\ syncRuns = <<>>
  /\ inst = 0
  /\ calls = <<>>
  /\ serverOrigin = <<>>
  /\ enqueued = LoadPendingMemoQueue(storedQueue, 0)
  /\ deleted = {}
  /\ faults = 0
  /\ editingId = NotEditing
  /\ saveEdits = <<>>
  /\ cq = CqInit(<<>>)
  /\ pure = PureIdle

SpecBoot == InitBoot /\ [][NextSync]_vars

\* A page load on a store whose entries left by the previous session carry a
\* payload the backend refuses on every attempt (body "b"); what the user
\* types now is accepted, and nothing else fails.
InvalidBodies == {"b"}

SendsInvalid(i) ==
  /\ syncRuns[i].pc = "consuming"
  /\ syncRuns[i].c.queue[syncRuns[i].c.index].payload.body_md \in InvalidBodies

NextBlocked ==
  \/ \E body \in ComposerBodies : HandleCreate(body, "r")
  \/ \E i \in DOMAIN syncRuns : ~SendsInvalid(i) /\ CreateRemoteCommits(i)
  \/ \E i \in DOMAIN syncRuns : CreateRemoteResolves(i)
  \/ \E i \in DOMAIN syncRuns : SendsInvalid(i) /\ CreateRemoteFails(i)
  \/ \E i \in DOMAIN syncRuns : SyncPersistRemaining(i)
  \/ \E i \in DOMAIN syncRuns : SyncPendingMemosSettles(i)
  \/ \E j \in DOMAIN chains : RefreshGetAnswered(j)
  \/ \E j \in DOMAIN chains : RefreshResolves(j)
  \/ \E j \in DOMAIN chains : RefreshRejects(j)
  \/ \E j \in DOMAIN chains : InitialSyncCallsSync(j)
  \/ \E k \in DOMAIN memoLogs : HandleDeletePending(k)

SpecBlocked == InitBoot /\ [][NextBlocked]_vars

\* A page load on a store in which entries can share a client_id (two
\* enqueues of the previous session drew the same clock reading and suffix)
\* or be equal altogether.  The settings do not change during this page load.
RepeatingEntries ==
  {BootEntry(1), [BootEntry(1) EXCEPT !.payload = MkPayload("a")], BootEntry(2)}

RepeatingQueues == UNION {[1..n -> RepeatingEntries] : n \in 0..MaxStored}

InitRepeating ==
  /\ storedQueue \in {SaveStoredList(q) : q \in RepeatingQueues}
  /\ LET m == Mount(storedQueue, 0)
     IN /\ memoLogs = m.memoLogs
        /\ storedCache = m.storedCache
        /\ pendingSyncCount = m.pendingSyncCount
        /\ chains = m.chains
  /\ server = <<>>
  /\ now = 1
  /\ pendingSyncInFlightRef = FALSE
  /\ syncRuns = <<>>
  /\ inst = 0
  /\ calls = <<>>
  /\ serverOrigin = <<>>
  /\ enqueued = LoadPendingMemoQueue(storedQueue, 0)
  /\ deleted = {}
  /\ faults = 0
  /\ editingId = NotEditing
  /\ saveEdits = <<>>
  /\ cq = CqInit(<<>>)
  /\ pure = PureIdle

SpecRepeating == InitRepeating /\ [][NextSync]_vars

\* One page load, without a change of the settings, on a store whose writes
\* can fail.
NextFault == NextSync \/ \E i \in DOMAIN syncRuns : SyncPersistThrows(i)

SpecFault == Init /\ [][NextFault]_vars


\* ------------------------------------ consumeCreateQueue run on its own
TestEntries ==
  {Entry(GenerateClientId(c, "r"), p, c) : c \in 1..MaxLen, p \in Payloads}

TestQueues == UNION {[1..n -> TestEntries] : n \in 0..MaxLen}

SyncedValues == {"s1", "s2"}

AppIdle ==
  /\ storedQueue = Absent /\ storedCache = Absent /\ server = <<>> /\ now = 1
  /\ memoLogs = <<>> /\ pendingSyncCount = 0 /\ pendingSyncInFlightRef = FALSE
  /\ syncRuns = <<>> /\ chains = <<>> /\ inst = 0 /\ calls = <<>>
  /\ serverOrigin = <<>> /\ enqueued = <<>> /\ deleted = {}
  /\ faults = 0
  /\ editingId = NotEditing
  /\ saveEdits = <<>>

InitConsume == AppIdle /\ pure = PureIdle /\ cq \in {CqInit(q) : q \in TestQueues}

ConsumeCall ==
  /\ cq.pc = "entry"
  /\ cq' = CqLoop(cq)
  /\ UNCHANGED <<appVars, pure>>

ConsumeRemoteResolves ==
  /\ cq.pc = "await"
  /\ \E synced \in SyncedValues : cq' = CqResolve(cq, synced)
  /\ UNCHANGED <<appVars, pure>>

ConsumeRemoteRejects ==
  /\ cq.pc = "await"
  /\ \E thrown \in Rejections : cq' = CqReject(cq, thrown)
  /\ UNCHANGED <<appVars, pure>>

NextConsume == ConsumeCall \/ ConsumeRemoteResolves \/ ConsumeRemoteRejects

SpecConsume == InitConsume /\ [][NextConsume]_vars

\* ------------------------------- memoOfflineSync.ts functions on their own
\* Memo logs as the functions receive them: server records and placeholders,
\* with sync_status synced, pending or not set, some sharing an id or a
\* created_at.
TestMemoIds == {<<"srv", 1>>, <<"srv", 2>>, <<"local", <<1, "r">>>>}

TestMemo(id, t, status) ==
  LET base == [id |-> id, user_id |-> "user", title |-> "a", body_md |-> "a",
               log_date |-> "today", related_session_id |-> "null", tags |-> <<>>,
               created_at |-> t, updated_at |-> t]
  IN IF status = "none" THEN base
     ELSE [f \in DOMAIN base \cup {"sync_status"} |->
             IF f = "sync_status" THEN status ELSE base[f]]

TestMemos ==
  {TestMemo(id, t, st) : id \in TestMemoIds, t \in 1..2, st \in {"synced", "pending", "none"}}

TestMemoLists == UNION {[1..n -> TestMemos] : n \in 0..MaxMemos}

PureVarsIdle == AppIdle /\ cq = CqInit(<<>>)

\* saveMemoCache(storage, memos), then loadMemoCache(storage), on a store of
\* their own.
InitCache ==
  /\ PureVarsIdle
  /\ pure \in {[stage |-> "input", memos |-> l] : l \in TestMemoLists}

CacheSaveCall ==
  /\ pure.stage = "input"
  /\ pure' = [stage |-> "saved", memos |-> pure.memos, store |-> SaveMemoCache(pure.memos)]
  /\ UNCHANGED <<appVars, cq>>

CacheLoadCall ==
  /\ pure.stage = "saved"
  /\ pure' = [stage |-> "loaded", memos |-> pure.memos, store |-> pure.store,
              out |-> LoadMemoCache(pure.store)]
  /\ UNCHANGED <<appVars, cq>>

NextCache == CacheSaveCall \/ CacheLoadCall

SpecCache == InitCache /\ [][NextCache]_vars

\* mergeMemoList(serverMemos, pendingPreviews) on lists of its own: records
\* without a sync_status for serverMemos, pending records for pendingPreviews,
\* every id possible on either side.
TestServerLists ==
  LET recs == {TestMemo(id, t, "none") : id \in TestMemoIds, t \in 1..2}
  IN UNION {[1..n -> recs] : n \in 0..MaxMemos}

TestPreviewLists ==
  LET recs == {TestMemo(id, t, "pending") : id \in TestMemoIds, t \in 1..2}
  IN UNION {[1..n -> recs] : n \in 0..MaxMemos}

InitMerge ==
  /\ PureVarsIdle
  /\ pure \in {[stage |-> "input", serverMemos |-> l, pendingPreviews |-> p] :
                 l \in TestServerLists, p \in TestPreviewLists}

MergeCall ==
  /\ pure.stage = "input"
  /\ pure' = [stage |-> "merged", serverMemos |-> pure.serverMemos,
              pendingPreviews |-> pure.pendingPreviews,
              out |-> MergeMemoList(pure.serverMemos, pure.pendingPreviews)]
  /\ UNCHANGED <<appVars, cq>>

SpecMerge == InitMerge /\ [][MergeCall]_vars

\* mergeMemoList called as handleCreate calls it, with a display list as its
\* first argument: records of any sync_status, placeholders among them.
TestDisplayLists ==
  LET recs == {TestMemo(id, 1, st) : id \in {<<"srv", 1>>, <<"local", <<1, "r">>>>},
                                     st \in {"synced", "pending", "none"}}
  IN UNION {[1..n -> recs] : n \in 0..MaxMemos}

TestShortPreviewLists ==
  LET recs == {TestMemo(<<"local", <<1, "r">>>>, 2, "pending"),
               TestMemo(<<"srv", 1>>, 2, "pending"),
               TestMemo(<<"srv", 2>>, 2, "none")}
  IN UNION {[1..n -> recs] : n \in 0..MaxMemos}

InitMergeDisplay ==
  /\ PureVarsIdle
  /\ pure \in {[stage |-> "input", serverMemos |-> l, pendingPreviews |-> p] :
                 l \in TestDisplayLists, p \in TestShortPreviewLists}

SpecMergeDisplay == InitMergeDisplay /\ [][MergeCall]_vars

\* applyMemoSyncSuccesses(current, [success]) on a display list of its own,
\* for the success of the placeholder local:<1, "r">.
TestSuccesses ==
  {[previewId |-> BuildPendingPreviewId(GenerateClientId(1, "r")),
    syncedMemo |-> TestMemo(id, t, "synced")] : id \in {<<"srv", 1>>, <<"srv", 2>>}, t \in 1..2}

InitApply ==
  /\ PureVarsIdle
  /\ pure \in {[stage |-> "input", current |-> l, success |-> x] :
                 l \in TestMemoLists, x \in TestSuccesses}

ApplyCall ==
  /\ pure.stage = "input"
  /\ pure' = [stage |-> "applied", current |-> pure.current, success |-> pure.success,
              out |-> ApplyMemoSyncSuccesses(pure.current, <<pure.success>>)]
  /\ UNCHANGED <<appVars, cq>>

SpecApply == InitApply /\ [][ApplyCall]_vars

\* loadPendingMemoQueue(storage) on a store of its own, at clock LoadClock.
\* The stored array holds entries of the current shape (one of them still
\* carrying a preview), entries of the legacy shape (client_id, payload and
\* the preview they were shown with), legacy entries whose preview has no
\* created_at or that have no preview, and values of neither shape: a
\* primitive, an object without client_id, one without payload, one whose
\* payload has no body_md.
LoadClock == 9

LegacyOf(entry) ==
  [client_id |-> entry.client_id, payload |-> entry.payload,
   preview |-> BuildPendingPreviewFromQueue(entry)]

CurrentValues ==
  LET e == Entry(GenerateClientId(1, "r"), MkPayload("a"), 1)
      f == Entry(GenerateClientId(2, "r"), MkPayload("b"), 2)
  IN {e, [x \in DOMAIN f \cup {"preview"} |->
            IF x = "preview" THEN BuildPendingPreviewFromQueue(f) ELSE f[x]]}

LegacyValues == {LegacyOf(Entry(GenerateClientId(3, "r"), MkPayload("a"), 3))}

LegacyUndatedValues ==
  {[client_id |-> GenerateClientId(4, "r"), payload |-> MkPayload("b"),
    preview |-> [id |-> BuildPendingPreviewId(GenerateClientId(4, "r"))]],
   [client_id |-> GenerateClientId(5, "r"), payload |-> MkPayload("a")]}

OtherValues ==
  {[primitive |-> 7],
   [payload |-> MkPayload("a"), meta |-> [queued_at |-> 6]],
   [client_id |-> GenerateClientId(7, "r"), meta |-> [queued_at |-> 7]],
   [client_id |-> GenerateClientId(8, "r"), payload |-> [title |-> "a"],
    preview |-> [created_at |-> 8]]}

TestStoredValues == CurrentValues \cup LegacyValues \cup LegacyUndatedValues \cup OtherValues

InitLoadQueue ==
  /\ PureVarsIdle
  /\ pure \in {[stage |-> "stored", raw |-> StoredArray(items)] :
                 items \in UNION {[1..n -> TestStoredValues] : n \in 0..MaxRaw}}

LoadQueueCall ==
  /\ pure.stage = "stored"
  /\ pure' = [stage |-> "loaded", raw |-> pure.raw,
              out |-> LoadPendingMemoQueue(pure.raw, LoadClock)]
  /\ UNCHANGED <<appVars, cq>>

SpecLoadQueue == InitLoadQueue /\ [][LoadQueueCall]_vars

\* loadStoredList(storage, key, isMemoLog) on a store of its own.  The key is
\* missing, holds the empty string, a string that is not JSON, JSON that is
\* not an array (null, an object), or an array of memo logs and of values
\* isMemoLog refuses.
ValidListValues == {TestMemo(<<"srv", 1>>, 1, "none"), TestMemo(<<"srv", 2>>, 2, "synced")}

InvalidListValues == {[primitive |-> 7], [id |-> <<"srv", 3>>, body_md |-> "a"]}

NonArrayStores ==
  {Absent, EmptyString, Unparsable, StoredValue(Null),
   StoredValue(TestMemo(<<"srv", 1>>, 1, "none"))}

InitLoadList ==
  /\ PureVarsIdle
  /\ pure \in {[stage |-> "stored", raw |-> r] :
                 r \in NonArrayStores \cup
                       {StoredArray(items) :
                          items \in UNION {[1..n -> ValidListValues \cup InvalidListValues] :
                                             n \in 0..MaxRaw}}}

LoadListCall ==
  /\ pure.stage = "stored"
  /\ pure' = [stage |-> "loaded", raw |-> pure.raw,
              out |-> LoadStoredList(pure.raw, IsMemoLog)]
  /\ UNCHANGED <<appVars, cq>>

SpecLoadList == InitLoadList /\ [][LoadListCall]_vars

\* enqueueMemoCreate(storage, payload) called again and again on a store of
\* its own, which holds what a previous session left.  Date.now() is read
\* from the wall clock: two calls can fall into the same millisecond and the
\* clock can be set back, so a reading can repeat; Math.random() can return
\* the same suffix twice.
ClockReadings == {1, 2}

RandomSuffixes == {"r", "s"}

InitEnqueue ==
  /\ PureVarsIdle
  /\ pure \in {[stage |-> "store", store |-> SavePendingMemoQueue(q), given |-> <<>>] :
                 q \in BootQueues}

EnqueueCall ==
  /\ pure.stage \in {"store", "enqueued"}
  /\ Len(pure.given) < MaxEnqueues
  /\ \E t \in ClockReadings, suffix \in RandomSuffixes, payload \in Payloads :
       LET done == EnqueueMemoCreate(pure.store, payload, t, suffix)
       IN pure' = [stage |-> "enqueued", before |-> pure.store, t |-> t,
                   suffix |-> suffix, payload |-> payload, store |-> done.stored,
                   preview |-> done.preview, queue |-> done.queue,
                   given |-> Append(pure.given, done.queue[Len(done.queue)].client_id)]
  /\ UNCHANGED <<appVars, cq>>

SpecEnqueue == InitEnqueue /\ [][EnqueueCall]_vars

\* ------------------------------------------------ consumeCreateQueue claims
Min(S) == CHOOSE x \in S : \A y \in S : x <= y

SuccessEntries(c) == [i \in DOMAIN c.successes |-> c.successes[i].entry]

SuccessValues(c) == [i \in DOMAIN c.successes |-> c.successes[i].synced]

\* C7: when a createRemote call rejects, with k the first rejected position,
\* the result has successes = the entries before k in order, each paired with
\* the value its call resolved with, remaining = the queue from k on, and an
\* error; the successes' entries followed by remaining are the queue.
ConsumeFailureResult ==
  (cq.pc = "returned" /\ cq.rejectedAt # {}) =>
    LET k == Min(cq.rejectedAt)
    IN /\ SuccessEntries(cq) = SubSeq(cq.queue, 1, k - 1)
       /\ SuccessValues(cq) = cq.returned
       /\ cq.remaining = SubSeq(cq.queue, k, Len(cq.queue))
       /\ cq.hasError /\ cq.error # NoError /\ cq.error.isError
       /\ SuccessEntries(cq) \o cq.remaining = cq.queue

ConsumeFailureResultWitness ==
  /\ cq.pc = "returned" /\ cq.rejectedAt = {2}
  /\ Len(cq.successes) = 1 /\ Len(cq.remaining) = 2

\* C8: createRemote is invoked once for each position of the queue, in queue
\* order, up to and including the first position whose call rejects, and for
\* no position after it.
StopAtFirstFailure ==
  /\ cq.invoked = [i \in 1..Len(cq.invoked) |-> i]
  /\ cq.rejectedAt # {} => (cq.pc = "returned" /\ Len(cq.invoked) = Min(cq.rejectedAt))
  /\ (cq.pc = "returned" /\ cq.rejectedAt = {}) => Len(cq.invoked) = Len(cq.queue)

StopAtFirstFailureWitness ==
  /\ cq.pc = "returned" /\ cq.rejectedAt = {2}
  /\ Len(cq.queue) = 3 /\ cq.invoked = <<1, 2>>

\* C9: when every createRemote call resolves, createRemote has been invoked
\* once per entry in queue order, remaining is empty, error is null, and the
\* successes are the entries in input order with the values returned.
FullSuccessDrains ==
  (cq.pc = "returned" /\ cq.rejectedAt = {}) =>
    /\ cq.invoked = [i \in 1..Len(cq.queue) |-> i]
    /\ cq.remaining = <<>>
    /\ ~cq.hasError /\ cq.error = NoError
    /\ SuccessEntries(cq) = cq.queue
    /\ SuccessValues(cq) = cq.returned

FullSuccessDrainsWitness ==
  /\ cq.pc = "returned" /\ cq.rejectedAt = {}
  /\ Len(cq.queue) = 3 /\ Len(cq.successes) = 3

\* C10: at most one createRemote call is outstanding, and it is the call for
\* the position invoked last: every earlier call has settled.
SequentialSends ==
  /\ Cardinality(cq.outstanding) <= 1
  /\ \A p \in cq.outstanding : p = cq.invoked[Len(cq.invoked)]
  /\ Len(cq.invoked) <= Len(cq.returned) + Cardinality(cq.rejectedAt) + 1

SequentialSendsWitness ==
  /\ cq.pc = "await" /\ cq.outstanding = {2}
  /\ Len(cq.returned) = 1 /\ Len(cq.queue) = 3

\* ------------------------------------------------------------ App claims
StoredEntries == LoadPendingMemoQueue(storedQueue, now)

StoredIds == {StoredEntries[i].client_id : i \in DOMAIN StoredEntries}

\* C1: at most one execution of syncPendingMemos is past the guard at any
\* time; and a call of syncPendingMemos made while the flag is set (from
\* handleCreate, or from runInitialSync after its refresh) begins no run, so no
\* snapshot of the stored queue is taken, and invokes no createRemote call.
SingleFlight ==
  /\ [](Len(syncRuns) <= 1)
  /\ [][(pendingSyncInFlightRef /\ (enqueued' # enqueued \/ Len(chains') < Len(chains)))
          => (syncRuns' = syncRuns /\ calls' = calls /\ pendingSyncInFlightRef')]_vars

\* a memo was enqueued while a run was in flight: the stored queue holds an
\* entry the run's snapshot lacks
SingleFlightWitness ==
  /\ pendingSyncInFlightRef /\ Len(syncRuns) = 1
  /\ syncRuns[1].pc = "consuming"
  /\ \E id \in StoredIds :
       id \notin {syncRuns[1].c.queue[i].client_id : i \in DOMAIN syncRuns[1].c.queue}

\* C2: within one page load, an entry is passed to createRemote again only
\* if every earlier call made for it rejected.
NoDuplicateSend ==
  \A i, j \in DOMAIN calls :
    (i < j /\ calls[i].cid = calls[j].cid /\ calls[i].inst = calls[j].inst)
      => calls[i].outcome = "rejected"

\* an entry was sent, rejected, and sent again by a later run
NoDuplicateSendWitness ==
  \E i, j \in DOMAIN calls :
    /\ i < j /\ calls[i].cid = calls[j].cid /\ calls[i].inst = calls[j].inst
    /\ calls[i].outcome = "rejected" /\ calls[j].outcome = "ok"

\* C3: the flag is set only while a run is in flight: once a run has ended,
\* whichever way, the flag is false.
FlagClearedOnEveryExit == pendingSyncInFlightRef => Len(syncRuns) > 0

\* a run whose storage write threw has ended, a later trigger has started a
\* run that sent the entry left in the store again, and it has ended too
FlagClearedOnEveryExitWitness ==
  /\ faults > 0
  /\ syncRuns = <<>> /\ ~pendingSyncInFlightRef
  /\ \E i, j \in DOMAIN calls :
       i < j /\ calls[i].cid = calls[j].cid /\ calls[i].outcome = "ok"

\* C4: no entry is created on the server twice.
ExactlyOnceAcrossReloads ==
  \A m, n \in DOMAIN serverOrigin : m # n => serverOrigin[m] # serverOrigin[n]

\* C5: every entry ever enqueued is in the stored queue unless one of its
\* createRemote calls has succeeded or the user has deleted it.
NoLostCreate ==
  \A k \in DOMAIN enqueued :
    \/ enqueued[k].client_id \in StoredIds
    \/ \E n \in DOMAIN calls : calls[n].cid = enqueued[k].client_id /\ calls[n].outcome = "ok"
    \/ enqueued[k].client_id \in deleted

\* C6: every memo enqueued is eventually created on the server or deleted by
\* the user, and the stored queue is eventually empty for good.
IsEnqueued(k) == Len(enqueued) >= k

IsDelivered(k) ==
  /\ Len(enqueued) >= k
  /\ \/ enqueued[k].client_id \in Range(serverOrigin)
     \/ enqueued[k].client_id \in deleted

ReliableDelivery ==
  /\ \A k \in 1..MaxEnqueues : IsEnqueued(k) ~> IsDelivered(k)
  /\ <>[](Len(StoredEntries) = 0)

\* C11: when two memos are both created on the server, the one enqueued first
\* has a createRemote call that succeeded, and that call was made and had
\* settled before any createRemote call for the other was started (a call of
\* a page that has been reloaded never settles and is left aside).
CallsOf(id) == {n \in DOMAIN calls : calls[n].cid = id}

SubmissionOrder ==
  \A ka, kb \in DOMAIN enqueued :
    LET a == enqueued[ka].client_id
        b == enqueued[kb].client_id
    IN (ka < kb /\ a \in Range(serverOrigin) /\ b \in Range(serverOrigin)) =>
         \A j \in CallsOf(b) :
           /\ \A i \in CallsOf(a) :
                (i < j /\ calls[i].inst = calls[j].inst) => calls[i].outcome # "pending"
           /\ \E i \in CallsOf(a) : i < j /\ calls[i].outcome = "ok"

\* the first memo was rejected once, the second was enqueued behind it, and a
\* later run created both
SubmissionOrderWitness ==
  /\ Len(enqueued) = 2 /\ Len(serverOrigin) = 2
  /\ \E i \in CallsOf(enqueued[1].client_id) : calls[i].outcome = "rejected"
  /\ \E j \in CallsOf(enqueued[2].client_id) : calls[j].outcome = "ok"

\* C12: when syncPendingMemoCreates has returned after loading a non-empty
\* queue Q, with k the first position whose createRemote call rejected (past
\* the end when none did): the stored queue is the returned pendingQueue, which
\* is Q from k on; successes holds, for each position before k in order, the
\* preview id local:<client_id> and the created record marked synced; and when
\* the first call rejected, successes is empty and all of Q is kept.
SyncRunOutcome ==
  \A r \in DOMAIN syncRuns :
    LET run == syncRuns[r]
        Q == run.c.queue
        k == IF run.c.rejectedAt = {} THEN Len(Q) + 1 ELSE Min(run.c.rejectedAt)
        res == run.result
    IN (run.pc = "resolved" /\ Len(Q) > 0) =>
         /\ storedQueue = StoredArray(res.pendingQueue)
         /\ LoadPendingMemoQueue(storedQueue, now) = res.pendingQueue
         /\ res.pendingQueue = SubSeq(Q, k, Len(Q))
         /\ Len(res.successes) = k - 1
         /\ \A n \in DOMAIN res.successes :
              /\ res.successes[n].previewId = <<"local", Q[n].client_id>>
              /\ res.successes[n].syncedMemo.sync_status = "synced"
              /\ \E m \in DOMAIN server :
                   /\ serverOrigin[m] = Q[n].client_id
                   /\ res.successes[n].syncedMemo = MarkSyncedMemo(server[m])
         /\ res.hasError = (run.c.rejectedAt # {})
         /\ 1 \in run.c.rejectedAt => (res.successes = <<>> /\ res.pendingQueue = Q)

\* a run on a queue of two whose second call rejected has returned
SyncRunOutcomeWitness ==
  \E r \in DOMAIN syncRuns :
    /\ syncRuns[r].pc = "resolved"
    /\ Len(syncRuns[r].c.queue) = 2 /\ syncRuns[r].c.rejectedAt = {2}
    /\ Len(syncRuns[r].result.successes) = 1

\* C13: the list stored under the cache key holds no pending record and no
\* placeholder, i.e. no record whose id is local:<client_id>.
CachedRecords == LoadStoredList(storedCache, IsMemoLog)

CacheHoldsNoPlaceholder ==
  \A i \in DOMAIN CachedRecords :
    /\ ~IsLocalId(CachedRecords[i].id)
    /\ ~(Has(CachedRecords[i], "sync_status") /\ CachedRecords[i].sync_status = "pending")

\* C14: saveMemoCache followed by loadMemoCache returns exactly the records
\* of the list whose sync_status was not pending, each as often as the list
\* held it and each with sync_status synced, and no other record.
Count(s, x) == Cardinality({i \in DOMAIN s : s[i] = x})

IsPendingMemo(m) == Has(m, "sync_status") /\ m.sync_status = "pending"

CacheRoundTrip ==
  pure.stage = "loaded" =>
    LET kept == MapSeq(SelectIdx(pure.memos, LAMBDA m : ~IsPendingMemo(m)), MarkSyncedMemo)
    IN /\ Len(pure.out) = Len(kept)
       /\ \A i \in DOMAIN pure.out : Count(pure.out, pure.out[i]) = Count(kept, pure.out[i])
       /\ \A i \in DOMAIN pure.out : pure.out[i].sync_status = "synced"

\* a list of one pending and one synced record went through the cache
CacheRoundTripWitness ==
  /\ pure.stage = "loaded"
  /\ Len(pure.memos) = 2 /\ Len(pure.out) = 1
  /\ \E i \in DOMAIN pure.memos : IsPendingMemo(pure.memos[i])

\* C15: the list mergeMemoList returns holds no id twice, is ordered by
\* created_at, latest first, and holds exactly the ids of its two inputs.
MergeResultShape ==
  pure.stage = "merged" =>
    /\ \A i, j \in DOMAIN pure.out :
         i < j => /\ pure.out[i].id # pure.out[j].id
                  /\ pure.out[i].created_at >= pure.out[j].created_at
    /\ {pure.out[i].id : i \in DOMAIN pure.out}
         = {pure.serverMemos[i].id : i \in DOMAIN pure.serverMemos}
             \cup {pure.pendingPreviews[i].id : i \in DOMAIN pure.pendingPreviews}

\* the server list repeats an id, a preview has the id of a server record, and
\* two records of the result share a created_at
MergeResultShapeWitness ==
  /\ pure.stage = "merged"
  /\ Len(pure.serverMemos) = 2 /\ pure.serverMemos[1].id = pure.serverMemos[2].id
  /\ Len(pure.pendingPreviews) = 2
  /\ pure.pendingPreviews[1].id = pure.serverMemos[1].id
  /\ Len(pure.out) = 2 /\ pure.out[1].created_at = pure.out[2].created_at

\* C16: the list applyMemoSyncSuccesses returns for one success holds no entry
\* with the preview id and exactly one entry with the id of the synced memo.
ApplyReplacesPreview ==
  pure.stage = "applied" =>
    /\ \A i \in DOMAIN pure.out : pure.out[i].id # pure.success.previewId
    /\ Cardinality({i \in DOMAIN pure.out : pure.out[i].id = pure.success.syncedMemo.id}) = 1

\* C17: in the display list a memo created offline is absent, a pending
\* placeholder, or the synced server record, and it moves only from absent to
\* pending when it is enqueued and from pending to synced when a sync run
\* whose createRemote call for it succeeded settles; nothing else changes it.
MemoStateIn(logs, records, origin, x) ==
  LET placeholder == \E i \in DOMAIN logs : logs[i].id = BuildPendingPreviewId(x)
      pending == \E i \in DOMAIN logs :
                   logs[i].id = BuildPendingPreviewId(x) /\ IsPendingMemo(logs[i])
      record == \E i \in DOMAIN logs : \E m \in DOMAIN records :
                  origin[m] = x /\ logs[i].id = records[m].id
  IN IF ~placeholder /\ ~record THEN "absent"
     ELSE IF pending /\ ~record THEN "pending"
     ELSE IF record /\ ~placeholder THEN "synced"
     ELSE "other"

PlaceholderLifecycle ==
  [][\A k \in DOMAIN enqueued' :
       LET x == enqueued'[k].client_id
           before == IF k \in DOMAIN enqueued
                     THEN MemoStateIn(memoLogs, server, serverOrigin, x) ELSE "absent"
           after == MemoStateIn(memoLogs', server', serverOrigin', x)
       IN \/ after = before /\ before \in {"absent", "pending", "synced"}
          \/ before = "absent" /\ after = "pending" /\ k \notin DOMAIN enqueued
          \/ /\ before = "pending" /\ after = "synced"
             /\ Len(syncRuns') < Len(syncRuns)
             /\ \E n \in CallsOf(x) : calls[n].outcome = "ok"]_vars

\* C18 (amended): handleSaveEdit called on a pending memo sends no request and
\* changes neither the stored queue nor the display list; handleDelete called
\* on a pending memo sends no request either, but it removes the memo's entry
\* from the stored queue and its placeholder from the display list, and
\* nothing else from either.
PendingEditRefusedDeleteLocal ==
  [][/\ saveEdits' # saveEdits =>
          /\ saveEdits'[Len(saveEdits')].put = <<>>
          /\ UNCHANGED <<storedQueue, memoLogs, calls, server>>
     /\ \A x \in deleted' \ deleted :
          /\ \E i \in DOMAIN memoLogs :
               memoLogs[i].id = BuildPendingPreviewId(x) /\ IsPendingMemo(memoLogs[i])
          /\ LoadPendingMemoQueue(storedQueue', now')
               = SelectIdx(LoadPendingMemoQueue(storedQueue, now),
                           LAMBDA e : e.client_id # x)
          /\ memoLogs' = SelectIdx(memoLogs, LAMBDA m : m.id # BuildPendingPreviewId(x))
          /\ UNCHANGED <<calls, server>>]_vars

\* A save was refused for a pending memo and a pending memo was deleted.
PendingEditRefusedDeleteLocalWitness ==
  /\ Len(saveEdits) > 0
  /\ deleted # {}

\* C18: handleSaveEdit and handleDelete called on a pending memo change
\* neither the stored queue nor the display list and send no request.
PendingIsReadOnly ==
  [][(saveEdits' # saveEdits \/ deleted' # deleted) =>
       /\ saveEdits' # saveEdits => saveEdits'[Len(saveEdits')].put = <<>>
       /\ UNCHANGED <<storedQueue, memoLogs, calls, server>>]_vars

\* C19: when the App boots on a non-empty cache left by the previous page
\* load, the display list it sets before any response is processed is that
\* cache's records merged with the previews of the stored queue.
InstantPaintFromCache ==
  [][(inst' # inst /\ Len(LoadMemoCache(storedCache)) > 0) =>
       memoLogs' = MergeMemoList(LoadMemoCache(storedCache),
                                 MapSeq(LoadPendingMemoQueue(storedQueue, now),
                                        BuildPendingPreviewFromQueue))]_vars

\* C20: loadPendingMemoQueue returns, in stored order, each entry of the
\* current shape unchanged and each legacy entry as {client_id, payload,
\* meta.queued_at = created_at of its preview} (the clock where the preview
\* has no created_at), and drops every value of neither shape.
ExpectedQueue(items) ==
  LET One(v) ==
        IF v \in CurrentValues THEN <<v>>
        ELSE IF v \in LegacyValues
        THEN <<Entry(v.client_id, v.payload, v.preview.created_at)>>
        ELSE IF v \in LegacyUndatedValues
        THEN <<Entry(v.client_id, v.payload, LoadClock)>>
        ELSE <<>>
      F[i \in 0..Len(items)] == IF i = 0 THEN <<>> ELSE F[i - 1] \o One(items[i])
  IN F[Len(items)]

LegacyNormalization ==
  pure.stage = "loaded" => pure.out = ExpectedQueue(pure.raw.items)

\* An array of a legacy entry, a value of neither shape and a current entry
\* was loaded: two entries came back.
LegacyNormalizationWitness ==
  /\ pure.stage = "loaded"
  /\ Len(pure.raw.items) = 3
  /\ pure.raw.items[1] \in LegacyValues
  /\ pure.raw.items[2] \in OtherValues
  /\ pure.raw.items[3] \in CurrentValues
  /\ Len(pure.out) = 2
  /\ pure.out[1].meta.queued_at = pure.raw.items[1].preview.created_at

\* C21: loadStoredList returns the empty list when the key is absent, when
\* the stored string is not JSON and when the parsed value is not an array;
\* otherwise it returns the stored elements the validator accepts, in stored
\* order, and nothing else.
ValidOnly(items) ==
  LET F[i \in 0..Len(items)] ==
        IF i = 0 THEN <<>>
        ELSE IF items[i] \in ValidListValues THEN Append(F[i - 1], items[i]) ELSE F[i - 1]
  IN F[Len(items)]

LoadStoredListDegrades ==
  pure.stage = "loaded" =>
    /\ pure.raw \in NonArrayStores => pure.out = <<>>
    /\ pure.raw \notin NonArrayStores => pure.out = ValidOnly(pure.raw.items)

\* An array of an accepted value, a refused one and an accepted one was
\* loaded, and stores that are absent, unparsable and not an array were.
LoadStoredListDegradesWitness ==
  /\ pure.stage = "loaded"
  /\ pure.raw.kind = "array"
  /\ Len(pure.raw.items) = 3
  /\ pure.raw.items[1] \in ValidListValues
  /\ pure.raw.items[2] \in InvalidListValues
  /\ pure.raw.items[3] \in ValidListValues
  /\ pure.raw.items[1] # pure.raw.items[3]
  /\ pure.out = <<pure.raw.items[1], pure.raw.items[3]>>

\* C22 (amended): when createRemote rejects with an Error, consumeCreateQueue
\* returns that Error as `error`; when it rejects with anything else, the
\* returned `error` is a new Error with the message "queue sync failed".
ErrorNormalized ==
  (cq.pc = "returned" /\ cq.hasError) =>
    /\ Len(cq.thrown) = 1
    /\ cq.thrown[1].isError => cq.error = cq.thrown[1]
    /\ ~cq.thrown[1].isError => cq.error = [isError |-> TRUE, message |-> "queue sync failed"]

\* A run ended on a rejection with a value that is not an Error, after a
\* success.
ErrorNormalizedWitness ==
  /\ cq.pc = "returned"
  /\ cq.hasError
  /\ Len(cq.successes) > 0
  /\ ~cq.thrown[1].isError

\* C22: when createRemote rejects, consumeCreateQueue returns as `error` the
\* value the call rejected with, whatever that value is.
ErrorPropagatedUnchanged ==
  (cq.pc = "returned" /\ cq.hasError) => cq.error = cq.thrown[Len(cq.thrown)]

\* C23: while an entry whose payload createRemote rejects on every attempt is
\* in the stored queue, no entry behind it in the stored queue is passed to
\* createRemote, whatever number of sync runs are started.
PositionsIn(queue, id) == {p \in DOMAIN queue : queue[p].client_id = id}

HeadOfLineBlocking ==
  [][\A n \in DOMAIN calls' \ DOMAIN calls :
       LET queue == LoadPendingMemoQueue(storedQueue', now')
       IN \A p \in PositionsIn(queue, calls'[n].cid) :
            \A h \in 1..(p - 1) : queue[h].payload.body_md \notin InvalidBodies]_vars

\* The head entry was rejected in two sync runs, an entry is behind it in the
\* stored queue, and nothing but the head entry was ever sent.
HeadOfLineBlockingWitness ==
  LET queue == LoadPendingMemoQueue(storedQueue, now)
  IN /\ Len(queue) >= 2
     /\ queue[1].payload.body_md \in InvalidBodies
     /\ Cardinality({n \in CallsOf(queue[1].client_id) : calls[n].outcome = "rejected"}) >= 2
     /\ \A n \in DOMAIN calls : calls[n].cid = queue[1].client_id

\* C24: the client_ids of the entries in the stored queue are pairwise
\* distinct, and no client_id given to an entry is given to a later entry.
ClientIdsUnique ==
  pure.stage = "enqueued" =>
    LET queue == LoadPendingMemoQueue(pure.store, pure.t)
    IN /\ \A i, j \in DOMAIN queue : queue[i].client_id = queue[j].client_id => i = j
       /\ \A i, j \in DOMAIN pure.given : pure.given[i] = pure.given[j] => i = j

\* C25: enqueueMemoCreate called on a store whose queue is Q writes Q followed
\* by one new entry e (the client_id generated in this call, the given
\* payload, meta.queued_at = now) to the store, makes no remote call, returns
\* the queue it wrote, and returns a preview with id local:<e.client_id>,
\* sync_status pending and created_at = e.meta.queued_at.
EnqueuePostcondition ==
  pure.stage = "enqueued" =>
    LET Q == LoadPendingMemoQueue(pure.before, pure.t)
        e == pure.queue[Len(pure.queue)]
    IN /\ pure.queue = Append(Q, e)
       /\ DOMAIN e = {"client_id", "payload", "meta"}
       /\ e.client_id = GenerateClientId(pure.t, pure.suffix)
       /\ e.payload = pure.payload
       /\ e.meta = [queued_at |-> pure.t]
       /\ pure.store = StoredArray(pure.queue)
       /\ LoadPendingMemoQueue(pure.store, pure.t) = pure.queue
       /\ calls = <<>> /\ syncRuns = <<>> /\ server = <<>>
       /\ pure.preview.id = BuildPendingPreviewId(e.client_id)
       /\ pure.preview.sync_status = "pending"
       /\ pure.preview.created_at = e.meta.queued_at

\* A second call, on a store that held two entries before the first.
EnqueuePostconditionWitness ==
  /\ pure.stage = "enqueued"
  /\ Len(pure.given) = 2
  /\ Len(pure.queue) = 4
  /\ pure.given[1] # pure.given[2]

\* C26: every record of mergeMemoList's first argument is in the result with
\* sync_status synced, whatever status it came with; a record of the second
\* argument is in the result, with sync_status pending, exactly when no record
\* of the first argument has its id.  (Where an argument holds an id more
\* than once, "the record" of that id is the last one of the first argument
\* and the first one of the second.)
SameButStatus(a, b) ==
  /\ DOMAIN a \ {"sync_status"} = DOMAIN b \ {"sync_status"}
  /\ \A f \in DOMAIN a \ {"sync_status"} : a[f] = b[f]

LastWithId(list, id) ==
  list[CHOOSE i \in DOMAIN list :
         list[i].id = id /\ \A h \in DOMAIN list : list[h].id = id => h <= i]

FirstWithId(list, id) ==
  list[CHOOSE i \in DOMAIN list :
         list[i].id = id /\ \A h \in DOMAIN list : list[h].id = id => h >= i]

MergeMarksAndPrefersServer ==
  pure.stage = "merged" =>
    /\ \A i \in DOMAIN pure.serverMemos :
         \E k \in DOMAIN pure.out :
           /\ pure.out[k].id = pure.serverMemos[i].id
           /\ Has(pure.out[k], "sync_status") /\ pure.out[k].sync_status = "synced"
           /\ SameButStatus(pure.out[k],
                            LastWithId(pure.serverMemos, pure.serverMemos[i].id))
    /\ \A j \in DOMAIN pure.pendingPreviews :
         /\ (\E k \in DOMAIN pure.out :
               /\ pure.out[k].id = pure.pendingPreviews[j].id
               /\ Has(pure.out[k], "sync_status") /\ pure.out[k].sync_status = "pending")
            <=> (\A i \in DOMAIN pure.serverMemos :
                   pure.serverMemos[i].id # pure.pendingPreviews[j].id)
         /\ \A k \in DOMAIN pure.out :
              (pure.out[k].id = pure.pendingPreviews[j].id
                 /\ pure.out[k].sync_status = "pending") =>
                SameButStatus(pure.out[k],
                              FirstWithId(pure.pendingPreviews, pure.pendingPreviews[j].id))

\* The first argument held a pending placeholder and a synced record, the
\* second a preview with the placeholder's id and one with a new id: the
\* placeholder came out synced, and only the new preview was added.
MergeMarksAndPrefersServerWitness ==
  /\ pure.stage = "merged"
  /\ Len(pure.serverMemos) = 2 /\ Len(pure.pendingPreviews) = 2
  /\ pure.serverMemos[1] = TestMemo(<<"local", <<1, "r">>>>, 1, "pending")
  /\ pure.serverMemos[2].id = <<"srv", 1>>
  /\ pure.pendingPreviews[1].id = <<"local", <<1, "r">>>>
  /\ pure.pendingPreviews[2].id = <<"srv", 2>>
  /\ Len(pure.out) = 3
  /\ \E k \in DOMAIN pure.out :
       pure.out[k].id = <<"local", <<1, "r">>>> /\ pure.out[k].sync_status = "synced"

\* C27: the stored queue is at all times a sub-sequence, in order, of the
\* entries in the order they were enqueued; and a step changes it only by
\* appending the new entry (enqueue), by writing back an unbroken tail of the
\* queue a sync run loaded (write-back), or by removing every entry of the
\* memo the user deletes (pending delete): no entry is dropped for being
\* equal to, or sharing a client_id with, another one.
IsSubSeq(s, t) ==
  \E f \in [DOMAIN s -> DOMAIN t] :
    /\ \A i \in DOMAIN s : t[f[i]] = s[i]
    /\ \A i, j \in DOMAIN s : i < j => f[i] < f[j]

QueueNeverReordersOrDedupes ==
  /\ [](IsSubSeq(StoredEntries, enqueued))
  /\ [][LET Q == LoadPendingMemoQueue(storedQueue, now)
            R == LoadPendingMemoQueue(storedQueue', now')
        IN \/ R = Q
           \/ enqueued' # enqueued /\ R = Append(Q, enqueued'[Len(enqueued')])
           \/ \E i \in DOMAIN syncRuns :
                /\ syncRuns[i].pc = "consumed"
                /\ \E k \in 1..(Len(syncRuns[i].c.queue) + 1) :
                     R = Slice(syncRuns[i].c.queue, k)
           \/ \E k \in DOMAIN memoLogs :
                /\ memoLogs[k].sync_status = "pending"
                /\ Len(memoLogs') < Len(memoLogs)
                /\ R = SelectIdx(Q, LAMBDA e :
                                      BuildPendingPreviewId(e.client_id) # memoLogs[k].id)]_vars

\* Two entries with one client_id, of different payloads, are both still in
\* the stored queue after a sync run whose first call was rejected has
\* written its queue back.
QueueNeverReordersOrDedupesWitness ==
  /\ Len(StoredEntries) = 2
  /\ StoredEntries[1].client_id = StoredEntries[2].client_id
  /\ StoredEntries[1] # StoredEntries[2]
  /\ \E n \in DOMAIN calls : calls[n].outcome = "rejected"
  /\ \E i \in DOMAIN syncRuns : syncRuns[i].pc = "resolved"

\* ---- appendCreateQueueEntry on its own, called with its params object.
\* `clientId` and `buildMeta` are optional; a buildMeta is one of two
\* callbacks: the one enqueueMemoCreate passes (the clock reading) and one
\* that uses both of its arguments.
Undefined == [kind |-> "undefined"]

MetaBuilders == {"queuedAt", "echo"}

BuildMeta(builder, payload, clientId, t) ==
  IF builder = "queuedAt" THEN [queued_at |-> t]
  ELSE [of |-> clientId, text |-> payload.body_md]

AppendParams ==
  LET queues == UNION {[1..n -> {BootEntry(1), BootEntry(2)}] : n \in 0..MaxStored}
      base == {[queue |-> q, payload |-> p] : q \in queues, p \in Payloads}
      withId == base \cup {[queue |-> b.queue, payload |-> b.payload, clientId |-> "fixed"] :
                             b \in base}
  IN withId \cup {[f \in DOMAIN b \cup {"buildMeta"} |->
                     IF f = "buildMeta" THEN m ELSE b[f]] :
                   b \in withId, m \in MetaBuilders}

\* The call with everything it does: the value it returns, the contents of
\* the array passed as params.queue once it has returned, and the writes it
\* made to storage.  The returned array is a new one ([...params.queue,
\* entry]); the function is handed no storage.
AppendCallPushing(params, t, suffix) ==
  LET clientId == IF Has(params, "clientId") THEN params.clientId
                  ELSE GenerateClientId(t, suffix)
      meta == IF Has(params, "buildMeta")
              THEN BuildMeta(params.buildMeta, params.payload, clientId, t)
              ELSE Undefined
      result == AppendCreateQueueEntry(params.queue, params.payload, clientId, meta)
  IN [result |-> result, queueAfter |-> result.queue, writes |-> <<>>]

AppendCall(params, t, suffix) ==
  LET clientId == IF Has(params, "clientId") THEN params.clientId
                  ELSE GenerateClientId(t, suffix)
      meta == IF Has(params, "buildMeta")
              THEN BuildMeta(params.buildMeta, params.payload, clientId, t)
              ELSE Undefined
      result == AppendCreateQueueEntry(params.queue, params.payload, clientId, meta)
  IN [result |-> result, queueAfter |-> params.queue, writes |-> <<>>]

RECURSIVE ApplyWrites(_, _)
ApplyWrites(store, writes) ==
  IF writes = <<>> THEN store
  ELSE ApplyWrites(With(store, LAMBDA st : writes[1]), Tail(writes))

InitAppend ==
  /\ PureVarsIdle
  /\ pure \in {[stage |-> "params", params |-> a, store |-> SaveStoredList(a.queue)] :
                 a \in AppendParams}

AppendEntryCall ==
  /\ pure.stage = "params"
  /\ \E t \in ClockReadings, suffix \in RandomSuffixes :
       LET call == AppendCall(pure.params, t, suffix)
       IN pure' = [stage |-> "appended", params |-> pure.params, t |-> t,
                   suffix |-> suffix, before |-> pure.store,
                   store |-> ApplyWrites(pure.store, call.writes),
                   queueAfter |-> call.queueAfter, result |-> call.result]
  /\ UNCHANGED <<appVars, cq>>

SpecAppend == InitAppend /\ [][AppendEntryCall]_vars

PreviewPayloads ==
  [title : {"t", "u"}, body_md : Bodies, log_date : {"today", "yesterday"},
   related_session_id : {"null", "s1"}, tags : {<<>>, <<"x", "y">>}]

PreviewEntries ==
  {Entry(GenerateClientId(c, "r"), p, q) :
     c \in ClockReadings, p \in PreviewPayloads, q \in ClockReadings}

\* The call made when the clock reads t: the function reads its argument and
\* nothing else.
BuildPreviewStamped(item, t) ==
  [BuildPendingPreviewFromQueue(item) EXCEPT !.created_at = t, !.updated_at = t]

BuildPreviewAt(item, t) == BuildPendingPreviewFromQueue(item)

InitPreview ==
  /\ PureVarsIdle
  /\ pure \in {[stage |-> "entry", item |-> e, previews |-> <<>>] : e \in PreviewEntries}

PreviewCall ==
  /\ pure.stage = "entry"
  /\ Len(pure.previews) < 2
  /\ \E t \in ClockReadings \cup {LoadClock} :
       pure' = [pure EXCEPT !.previews = Append(@, BuildPreviewAt(pure.item, t))]
  /\ UNCHANGED <<appVars, cq>>

SpecPreview == InitPreview /\ [][PreviewCall]_vars

\* C29: every record buildPendingPreviewFromQueue returns for an entry has
\* id local:<client_id>, created_at and updated_at equal to meta.queued_at,
\* sync_status pending, and title, body_md, log_date, related_session_id and
\* tags equal to the payload's; two calls on one entry return equal records.
PreviewIsDeterministic ==
  pure.stage = "entry" =>
    /\ \A k \in DOMAIN pure.previews :
         LET item == pure.item
             memo == pure.previews[k]
         IN /\ memo.id = <<"local", item.client_id>>
            /\ memo.created_at = item.meta.queued_at
            /\ memo.updated_at = item.meta.queued_at
            /\ memo.sync_status = "pending"
            /\ memo.title = item.payload.title
            /\ memo.body_md = item.payload.body_md
            /\ memo.log_date = item.payload.log_date
            /\ memo.related_session_id = item.payload.related_session_id
            /\ memo.tags = item.payload.tags
    /\ \A j, k \in DOMAIN pure.previews : pure.previews[j] = pure.previews[k]

\* Two calls were made on an entry whose payload has a title other than its
\* body, a session and tags.
PreviewIsDeterministicWitness ==
  /\ pure.stage = "entry"
  /\ Len(pure.previews) = 2
  /\ pure.item.payload.title # pure.item.payload.body_md
  /\ pure.item.payload.related_session_id = "s1"
  /\ pure.item.payload.tags # <<>>
  /\ pure.previews[1].tags = <<"x", "y">>

\* ---- two App instances (tabs) on one localStorage and one backend.
\* Each tab is a page of its own: its own pendingSyncInFlightRef and its own
\* syncPendingMemos run; `store` is the queue key of the shared localStorage.
\* `sent` holds the createRemote calls that settled, `created` counts the
\* records the backend created, `runs` the runs started.  A POST and its
\* response are one step here.
Tabs == {1, 2}

IdleTab == [flag |-> FALSE, pc |-> "idle", c |-> CqInit(<<>>)]

\* syncPendingMemos' guard in a tab (hasApiConfigError is false).
CanStartSyncShared(tabs, tab) == \A u \in Tabs : ~tabs[u].flag

CanStartSync(tabs, tab) == ~tabs[tab].flag

InitTabs ==
  /\ PureVarsIdle
  /\ pure \in {[stage |-> "tabs", store |-> SavePendingMemoQueue(q),
                 tabs |-> [u \in Tabs |-> IdleTab], clock |-> 1, created |-> 0,
                 sent |-> {}, runs |-> 0, creates |-> 0] : q \in BootQueues}

\* syncPendingMemos in a tab, up to the first await.
TabSyncPendingMemos(tab) ==
  LET begin == SyncPendingMemoCreatesBegin(pure.store, pure.clock)
  IN /\ pure.stage = "tabs"
     /\ pure.runs < MaxTabRuns
     /\ CanStartSync(pure.tabs, tab)
     /\ pure' = [pure EXCEPT !.tabs[tab] = [flag |-> TRUE, pc |-> begin.pc, c |-> begin.c],
                             !.runs = @ + 1]
     /\ UNCHANGED <<appVars, cq>>

\* The POST a tab awaits is handled by the backend and answered 2xx.
TabCreateRemoteResolves(tab) ==
  LET t == pure.tabs[tab]
      entry == t.c.queue[t.c.index]
      rec == ServerCreate(pure.created + 1, entry.payload, pure.clock)
      d == CqResolve(t.c, rec)
  IN /\ pure.stage = "tabs"
     /\ t.pc = "consuming"
     /\ pure' = [pure EXCEPT !.tabs[tab].c = d,
                             !.tabs[tab].pc = IF d.pc = "returned" THEN "consumed"
                                              ELSE "consuming",
                             !.created = @ + 1,
                             !.sent = @ \cup {[tab |-> tab, client_id |-> entry.client_id,
                                                outcome |-> "ok"]}]
     /\ UNCHANGED <<appVars, cq>>

\* The POST a tab awaits fails in the environment.
TabCreateRemoteRejects(tab) ==
  LET t == pure.tabs[tab]
      entry == t.c.queue[t.c.index]
      d == CqReject(t.c, [isError |-> TRUE, message |-> "boom"])
  IN /\ pure.stage = "tabs"
     /\ t.pc = "consuming"
     /\ Cardinality({call \in pure.sent : call.outcome = "rejected"}) < MaxFailures
     /\ pure' = [pure EXCEPT !.tabs[tab].c = d,
                             !.tabs[tab].pc = "consumed",
                             !.sent = @ \cup {[tab |-> tab, client_id |-> entry.client_id,
                                                outcome |-> "rejected"]}]
     /\ UNCHANGED <<appVars, cq>>

\* syncPendingMemoCreates in a tab after `await consumeCreateQueue`.
TabSyncPersistRemaining(tab) ==
  LET t == pure.tabs[tab]
  IN /\ pure.stage = "tabs"
     /\ t.pc = "consumed"
     /\ pure' = [pure EXCEPT !.store = SavePendingMemoQueue(SyncRemainingQueue(t.c, pure.clock)),
                             !.tabs[tab].pc = "resolved"]
     /\ UNCHANGED <<appVars, cq>>

\* syncPendingMemos in a tab after its await, through the finally block.
TabSyncPendingMemosSettles(tab) ==
  /\ pure.stage = "tabs"
  /\ pure.tabs[tab].pc = "resolved"
  /\ pure' = [pure EXCEPT !.tabs[tab] = IdleTab]
  /\ UNCHANGED <<appVars, cq>>

\* handleCreate in a tab, as far as the store goes.
TabHandleCreate(tab) ==
  /\ pure.stage = "tabs"
  /\ pure.creates < MaxTabCreates
  /\ \E body \in ComposerBodies :
       pure' = [pure EXCEPT !.store = EnqueueMemoCreate(pure.store, MkPayload(body),
                                                       pure.clock, "r").stored,
                            !.clock = @ + 1,
                            !.creates = @ + 1]
  /\ UNCHANGED <<appVars, cq>>

NextTabs ==
  \E tab \in Tabs :
    \/ TabSyncPendingMemos(tab)
    \/ TabCreateRemoteResolves(tab)
    \/ TabCreateRemoteRejects(tab)
    \/ TabSyncPersistRemaining(tab)
    \/ TabSyncPendingMemosSettles(tab)
    \/ TabHandleCreate(tab)

SpecTabs == InitTabs /\ [][NextTabs]_vars

\* C30: with two tabs on one store, whether a tab may start a sync run
\* depends on that tab's flag alone, and every write of the stored queue by a
\* run is the part of the queue that run loaded which it has not delivered,
\* whatever the store held just before.
NoCrossTabExclusion ==
  /\ [](pure.stage = "tabs" =>
          \A tab \in Tabs : CanStartSync(pure.tabs, tab) <=> ~pure.tabs[tab].flag)
  /\ [][(pure.stage = "tabs" /\ pure'.creates = pure.creates /\ pure'.store # pure.store) =>
          \E tab \in Tabs :
            /\ pure.tabs[tab].pc = "consumed"
            /\ pure'.tabs[tab].pc = "resolved"
            /\ LoadPendingMemoQueue(pure'.store, pure'.clock) = pure.tabs[tab].c.remaining]_vars

\* Both tabs passed one entry to createRemote and the backend created a
\* record for it; both runs are over, and the stored queue, written last by
\* the tab whose call was rejected, holds that entry again.
NoCrossTabExclusionWitness ==
  /\ pure.stage = "tabs"
  /\ \A tab \in Tabs : pure.tabs[tab] = IdleTab
  /\ \E delivered, failed \in pure.sent :
       /\ delivered.tab # failed.tab
       /\ delivered.client_id = failed.client_id
       /\ delivered.outcome = "ok"
       /\ failed.outcome = "rejected"
       /\ \E e \in Range(LoadPendingMemoQueue(pure.store, pure.clock)) :
            e.client_id = delivered.client_id

\* ====================================================== SessionViewTimer.ts
\* shouldRunResumeSync: the two early returns, then the interval test.
\* lastSyncEpochMs is null or a number: [kind |-> "null"] or [kind |-> "ms", ms |-> n].
EpochMs(n) == [kind |-> "ms", ms |-> n]

ShouldRunResumeSyncIgnoringFlight(input) ==
  IF ~input.hasActiveSession THEN FALSE
  ELSE IF input.lastSyncEpochMs = Null THEN TRUE
  ELSE input.nowEpochMs - input.lastSyncEpochMs.ms >= input.minIntervalMs

ShouldRunResumeSync(input) ==
  IF ~input.hasActiveSession \/ input.inFlight THEN FALSE
  ELSE IF input.lastSyncEpochMs = Null THEN TRUE
  ELSE input.nowEpochMs - input.lastSyncEpochMs.ms >= input.minIntervalMs

ResumeSyncGuardInputs ==
  [hasActiveSession : BOOLEAN, inFlight : BOOLEAN,
   lastSyncEpochMs : {Null} \cup {EpochMs(n) : n \in 0..MaxEpoch},
   nowEpochMs : 0..MaxEpoch, minIntervalMs : 0..MaxEpoch]

InitResumeGuard ==
  /\ PureVarsIdle
  /\ pure \in {[stage |-> "guardInput", input |-> i] : i \in ResumeSyncGuardInputs}

ResumeGuardCall ==
  /\ pure.stage = "guardInput"
  /\ pure' = [stage |-> "guardResult", input |-> pure.input,
              result |-> ShouldRunResumeSync(pure.input)]
  /\ UNCHANGED <<appVars, cq>>

SpecResumeGuard == InitResumeGuard /\ [][ResumeGuardCall]_vars

\* C31: shouldRunResumeSync returns true exactly when hasActiveSession is
\* true, inFlight is false, and lastSyncEpochMs is null or nowEpochMs -
\* lastSyncEpochMs >= minIntervalMs; with inFlight true it returns false.
ResumeGuardIff ==
  pure.stage = "guardResult" =>
    LET i == pure.input
    IN /\ pure.result <=>
            /\ i.hasActiveSession
            /\ ~i.inFlight
            /\ \/ i.lastSyncEpochMs.kind = "null"
               \/ /\ i.lastSyncEpochMs.kind = "ms"
                  /\ i.nowEpochMs - i.lastSyncEpochMs.ms >= i.minIntervalMs
       /\ i.inFlight => ~pure.result

\* A call with a session, a sync in flight and the interval long elapsed.
ResumeGuardIffWitness ==
  /\ pure.stage = "guardResult"
  /\ pure.input.hasActiveSession /\ pure.input.inFlight
  /\ pure.input.lastSyncEpochMs = EpochMs(0)
  /\ pure.input.nowEpochMs = 3 /\ pure.input.minIntervalMs = 2
  /\ ~pure.result

\* C32: the display list never holds two records with the same id.
DisplayIdsUnique ==
  \A j, k \in DOMAIN memoLogs : memoLogs[j].id = memoLogs[k].id => j = k

\* C33: every record of the display list whose id is local:<client_id> has
\* sync_status pending.
PlaceholdersStayPending ==
  \A i \in DOMAIN memoLogs :
    IsLocalId(memoLogs[i].id) => memoLogs[i].sync_status = "pending"

\* C34: every memo that was enqueued and that the user has not deleted is in
\* the display list, as its placeholder or as the record the server created
\* for it.
NoDisappearance ==
  \A k \in DOMAIN enqueued :
    LET x == enqueued[k].client_id
    IN x \notin deleted =>
         \E i \in DOMAIN memoLogs :
           \/ memoLogs[i].id = BuildPendingPreviewId(x)
           \/ \E m \in DOMAIN server : serverOrigin[m] = x /\ memoLogs[i].id = server[m].id

\* C35: once handleDelete has removed a pending memo's entry from the stored
\* queue, no createRemote call is made for that entry any more, the entry is
\* not in the stored queue again, and no record for it (placeholder or server
\* record) is put into the display list.
DeleteIsFinal ==
  [][\A x \in deleted :
       LET RecordOf(logs, records, origin) ==
             {logs[i].id : i \in {j \in DOMAIN logs :
                \/ logs[j].id = BuildPendingPreviewId(x)
                \/ \E m \in DOMAIN records : origin[m] = x /\ logs[j].id = records[m].id}}
       IN /\ \A n \in DOMAIN calls' \ DOMAIN calls : calls'[n].cid # x
          /\ \A e \in Range(LoadPendingMemoQueue(storedQueue', now')) : e.client_id # x
          /\ RecordOf(memoLogs', server', serverOrigin')
               \subseteq RecordOf(memoLogs, server, serverOrigin)]_vars

\* No syncPendingMemos run and no runInitialSync chain (refreshMemos, then
\* syncPendingMemos) is in flight.
Quiescent == syncRuns = <<>> /\ chains = <<>>

\* C36: when no sync run and no refresh is in flight, the ids of the form
\* local:<client_id> in the display list are exactly the local:<client_id>
\* of the entries in the stored queue.
QueueDisplayCorrespondence ==
  Quiescent =>
    {memoLogs[i].id : i \in {j \in DOMAIN memoLogs : IsLocalId(memoLogs[j].id)}}
      = {BuildPendingPreviewId(x) : x \in StoredIds}

\* ---- syncPendingMemoCreates on its own, on a store whose queue key is
\* missing, holds a string that loads as no list, an array of values that
\* normalizePendingMemoQueueItem refuses, or a queue of entries.  `writes`
\* counts the savePendingMemoQueue calls.
EmptyLoadingStores ==
  {Absent, EmptyString, Unparsable} \cup NonArrayStores
    \cup {StoredArray(items) : items \in UNION {[1..n -> OtherValues] : n \in 0..MaxRaw}}

InitSyncCreates ==
  /\ PureVarsIdle
  /\ pure \in {[stage |-> "syncStore", store |-> st] :
                 st \in EmptyLoadingStores
                          \cup {SavePendingMemoQueue(q) : q \in BootQueues}}

\* The call up to its first await, or to its return on an empty queue.
SyncCreatesCall ==
  /\ pure.stage = "syncStore"
  /\ pure' = [stage |-> "syncRun", before |-> pure.store, store |-> pure.store,
              run |-> SyncPendingMemoCreatesBegin(pure.store, LoadClock),
              created |-> 0, writes |-> 0]
  /\ UNCHANGED <<appVars, cq>>

SyncCreatesRemoteResolves ==
  /\ pure.stage = "syncRun"
  /\ pure.run.pc = "consuming" /\ pure.run.c.pc = "await"
  /\ LET entry == pure.run.c.queue[pure.run.c.index]
         rec == ServerCreate(pure.created + 1, entry.payload, LoadClock)
     IN pure' = [pure EXCEPT !.run.c = CqResolve(pure.run.c, rec), !.created = @ + 1]
  /\ UNCHANGED <<appVars, cq>>

SyncCreatesRemoteRejects ==
  /\ pure.stage = "syncRun"
  /\ pure.run.pc = "consuming" /\ pure.run.c.pc = "await"
  /\ pure' = [pure EXCEPT !.run.c = CqReject(pure.run.c, [isError |-> TRUE, message |-> "boom"])]
  /\ UNCHANGED <<appVars, cq>>

\* After `await consumeCreateQueue`: the write-back and the return.
SyncCreatesPersists ==
  /\ pure.stage = "syncRun"
  /\ pure.run.pc = "consuming" /\ pure.run.c.pc = "returned"
  /\ pure' = [pure EXCEPT !.store = SavePendingMemoQueue(SyncRemainingQueue(pure.run.c, LoadClock)),
                          !.writes = @ + 1,
                          !.run.pc = "resolved",
                          !.run.result = SyncResult(pure.run.c, LoadClock)]
  /\ UNCHANGED <<appVars, cq>>

NextSyncCreates ==
  \/ SyncCreatesCall
  \/ SyncCreatesRemoteResolves
  \/ SyncCreatesRemoteRejects
  \/ SyncCreatesPersists

SpecSyncCreates == InitSyncCreates /\ [][NextSyncCreates]_vars

\* C37: called on a store whose queue loads as empty (key absent, not a
\* list, an empty array, or only values that are refused),
\* syncPendingMemoCreates has returned {successes: [], pendingQueue: [],
\* error: null} at once, has invoked createRemote for nothing and has not
\* written to the store.
EmptyQueueIsNoOp ==
  (pure.stage = "syncRun" /\ LoadPendingMemoQueue(pure.before, LoadClock) = <<>>) =>
    /\ pure.run.pc = "resolved"
    /\ pure.run.result.successes = <<>>
    /\ pure.run.result.pendingQueue = <<>>
    /\ ~pure.run.result.hasError /\ pure.run.result.error = NoError
    /\ pure.run.c.invoked = <<>>
    /\ pure.created = 0
    /\ pure.writes = 0
    /\ pure.store = pure.before

\* The call was made on a store holding an array of three values, all of
\* them refused by normalizePendingMemoQueueItem.
EmptyQueueIsNoOpWitness ==
  /\ pure.stage = "syncRun"
  /\ pure.before.kind = "array"
  /\ Len(pure.before.items) = 3
  /\ pure.run.pc = "resolved"
  /\ pure.store = pure.before

\* C38: when no sync run and no refresh is in flight, pendingSyncCount is the
\* number of entries in the stored queue.
PendingCounterAgrees ==
  Quiescent => pendingSyncCount = Len(StoredEntries)

\* After a boot on a stored queue, a pending delete and a rejected call, with
\* everything settled, one entry is left in the queue.
PendingCounterAgreesWitness ==
  /\ Quiescent
  /\ pendingSyncCount = 1
  /\ Len(enqueued) > Len(StoredEntries)
  /\ deleted # {}
  /\ Rejected # {}

\* ---- savePendingMemoQueue then loadPendingMemoQueue on a queue of entries
\* of the current shape, and loadPendingMemoQueue called twice, at two
\* readings of the clock, on one stored array of values of every shape.
LoadClocks == {LoadClock, LoadClock + 1}

InitRoundTrip ==
  /\ PureVarsIdle
  /\ pure \in {[stage |-> "toSave", queue |-> q] :
                 q \in UNION {[1..n -> CurrentValues] : n \in 0..MaxRaw}}
               \cup {[stage |-> "toLoad", raw |-> StoredArray(items)] :
                       items \in UNION {[1..n -> TestStoredValues] : n \in 0..MaxStored}}

SaveThenLoadCall ==
  /\ pure.stage = "toSave"
  /\ \E t \in LoadClocks :
       LET raw == SavePendingMemoQueue(pure.queue)
       IN pure' = [stage |-> "roundTrip", queue |-> pure.queue, raw |-> raw,
                   out |-> LoadPendingMemoQueue(raw, t)]
  /\ UNCHANGED <<appVars, cq>>

LoadTwiceCall ==
  /\ pure.stage = "toLoad"
  /\ \E t1, t2 \in LoadClocks :
       /\ t1 <= t2
       /\ pure' = [stage |-> "loadedTwice", raw |-> pure.raw, t1 |-> t1, t2 |-> t2,
                   first |-> LoadPendingMemoQueue(pure.raw, t1),
                   second |-> LoadPendingMemoQueue(pure.raw, t2)]
  /\ UNCHANGED <<appVars, cq>>

NextRoundTrip == SaveThenLoadCall \/ LoadTwiceCall

SpecRoundTrip == InitRoundTrip /\ [][NextRoundTrip]_vars

\* C39: savePendingMemoQueue followed by loadPendingMemoQueue returns the
\* queue that was saved, and two loads of one stored value return equal
\* queues, whatever the stored entries are.
QueueRoundTrip ==
  /\ pure.stage = "roundTrip" => pure.out = pure.queue
  /\ pure.stage = "loadedTwice" => pure.first = pure.second

\* C39 (amended): savePendingMemoQueue followed by loadPendingMemoQueue
\* returns the queue that was saved; two loads of one stored value return
\* queues of the same length whose entries agree in client_id and payload,
\* and in meta.queued_at too except where each is the clock reading of its
\* own load; they are equal when every stored entry has the current shape or
\* a preview with a created_at.
IsUndatedLegacy(value) ==
  /\ ~IsPendingMemoQueueItem(value)
  /\ Has(value, "client_id") /\ Has(value, "payload") /\ Has(value.payload, "body_md")
  /\ ~(Has(value, "preview") /\ Has(value.preview, "created_at"))

QueueRoundTripButUndated ==
  /\ pure.stage = "roundTrip" => pure.out = pure.queue
  /\ pure.stage = "loadedTwice" =>
       /\ Len(pure.first) = Len(pure.second)
       /\ \A i \in DOMAIN pure.first :
            /\ pure.first[i].client_id = pure.second[i].client_id
            /\ pure.first[i].payload = pure.second[i].payload
            /\ \/ pure.first[i] = pure.second[i]
               \/ /\ pure.first[i].meta.queued_at = pure.t1
                  /\ pure.second[i].meta.queued_at = pure.t2
       /\ (\A k \in DOMAIN pure.raw.items : ~IsUndatedLegacy(pure.raw.items[k]))
            => pure.first = pure.second

\* A stored array of a legacy entry without preview.created_at and a current
\* entry was loaded at two clock readings: the two queues differ.
QueueRoundTripButUndatedWitness ==
  /\ pure.stage = "loadedTwice"
  /\ Len(pure.raw.items) = 2
  /\ pure.raw.items[1] \in LegacyUndatedValues
  /\ pure.raw.items[2] \in CurrentValues
  /\ pure.t1 # pure.t2
  /\ pure.first # pure.second
  /\ pure.first[2] = pure.second[2]

====
